---- MODULE Spec2Model ----
(***************************************************************************)
(* Model of the crawl orchestrator (scraper.py, crawl_category) and of the *)
(* relational store it writes to (db.py, AlertDB).                         *)
(*                                                                         *)
(* One run of crawl_category is a sequential process; pc is its position.  *)
(* Every awaited call and every sink write is one step, and each of them   *)
(* may raise.  An exception that crawl_category does not catch ends the    *)
(* run (pc = "crashed"); main's handler logs it.                           *)
(***************************************************************************)
EXTENDS Integers, Sequences, FiniteSets, TLC

VARIABLES
    pc,               \* position of the orchestrator
    fault,            \* the call whose exception ended the run, or "none"
    last_event,       \* kind of the most recent console.log line
    runs,             \* table runs: sequence of [run_id, started_at, finished_at]
    variants,         \* table variants: function hash_key -> record
    observations,     \* table observations: sequence, obs_id is the position
    csv,              \* data lines of the flat log, in file order
    run_id,           \* id returned by begin_run for the current run
    seen_color_keys,  \* the run's dedup set
    session,          \* automation session: "none", "open", "closed"
    product_links,    \* discovered link list
    limit,            \* argv[2]: None or Some(n)
    start_at,         \* argv[3] / START_AT
    i,                \* 0-based index of the for loop over product_links
    attempt,          \* navigation attempts made for the current link
    nav_ok,           \* navigation of the current link succeeded
    rows,             \* rows returned by parse_pdp for the current page
    new_rows,         \* rows kept by the dedup
    k,                \* 1-based position in new_rows of the store loop
    clock,            \* number of now_iso() calls so far
    written,          \* history: sink writes of the current run <<sink, url, color>>
    visited,          \* history: indices whose loop body was entered in the current run
    finish_called,    \* history: finish_run was called in the current run
    in_stock_calls,   \* history: hash_keys upserted at least once with num_in_stock > 0
    links_found,      \* history: links discovered by the invocations so far
    pause_due,        \* history: a page was visited in this run and no politeness
                      \* pause has been executed since
    \* scroll_and_collect_product_links
    sc_pc,            \* position: "off", "collect", "normalize", "returned", "raised"
    scroll_n,         \* iterations of the scroll loop made so far
    last_count,       \* count of the iteration before
    stable_iterations,
    candidate_links,  \* set(product_links) of the latest iteration
    last_change,      \* history: latest iteration whose count differed from the one before
    returned_links,   \* the list returned, None before the return
    \* parse_pdp: the price reconciliation of one color
    price_pc,         \* position: "off", "reconcile", "normalize", "row"
    list_price,
    sale_price,
    discount,
    price_given,      \* history: <<list_price, sale_price>> as the resolvers yielded them
    price_derived,    \* history: the pair compute_missing_prices returned
    \* parse_pdp: the color loop
    pdp_pc,           \* position: "off", "color", "sizes", "fields", "build", "returned"
    color_idx,        \* idx: index of the color
    n_colors,         \* len(color_selectors)
    base_name,        \* json_ld.get("name")
    sizes,            \* sizes of the color: list of <<label, in stock>>
    sizes_from,       \* history: source of sizes for the latest color
    sizes_dropped,    \* history: labelled size options of that source not in sizes
    fields,           \* name, image_url, inventory_amount of the color
    outcomes,         \* history: what the resolvers did, per color
    pdp_rows,         \* rows of parse_pdp
    \* the flat log on disk
    csv_pc,           \* position: "off", "ensure", "append"
    log_file,         \* the file at csv_path: whether it exists, and its lines
    backups,          \* the files renamed to .csv.bak_<ts>
    rename_raises,    \* environment: csv_path.rename raises in this run
    log_read,         \* history: the latest ensure_csv could read the header
    log_before,       \* history: the file at csv_path before the latest ensure_csv
    appends,          \* append_rows calls of the run
    csv_runs,         \* runs started on the flat log
    \* compute_color_hash_key on two (product URL, color) pairs
    hash_pc,          \* position: "off", "pairs", "hashed"
    hash_pairs,       \* the two pairs
    hash_keys,        \* their keys, once computed
    \* AlertDB.upsert_variant on its own
    up_pc,            \* position: "off", "store"
    up_variants,      \* table variants
    up_calls,         \* history: the upsert_variant calls made, in order
    \* parse_pdp: the color options and the color names
    sw_pc,            \* position: "off", "find", "loop", "returned"
    swatch_labels,    \* aria-label of the swatches on the page, in page order
    max_colors,       \* cfg.max_colors
    discounted_name,  \* read_discounted_color_name(page), <<>> for None
    color_selectors,  \* the iteration order
    sw_idx,           \* idx of the color loop
    sw_rows,          \* per row: idx, color, and whether a label was read
    \* parse_pdp: the sizes and the inventory of each color
    st_pc,            \* position: "off", "entry", "color", "sizes", "select", "inventory", "returned"
    page_nd,          \* the __NEXT_DATA__ the page embeds
    page_phase,       \* the last click on the page: "none", "color", "size"
    next_data,        \* the local next_data, with the phase of the page at its read
    st_idx,           \* idx of the color loop
    color_name,       \* the local color_name, <<>> for None
    size_qty_map,     \* the local size_qty_map of the iteration
    sizes_before,     \* the local sizes_before_selection, with the phase at its read
    st_rows           \* per row: idx, sizes, size_quantities, inventory_amount, phases

(* the state of a crawl: the orchestrator and the two sinks *)
crawl_vars == <<pc, fault, last_event, runs, variants, observations, csv, run_id,
                seen_color_keys, session, product_links, limit, start_at, i, attempt,
                nav_ok, rows, new_rows, k, clock, written, visited, finish_called,
                in_stock_calls, links_found, pause_due>>

(* the state of the functions that are checked on their own *)
links_vars == <<sc_pc, scroll_n, last_count, stable_iterations, candidate_links,
                last_change, returned_links>>
price_vars == <<price_pc, list_price, sale_price, discount, price_given, price_derived>>
pdp_vars == <<pdp_pc, color_idx, n_colors, base_name, sizes, sizes_from, sizes_dropped, fields,
              outcomes, pdp_rows>>
csv_vars == <<csv_pc, log_file, backups, rename_raises, log_read, log_before, appends,
              csv_runs>>
hash_vars == <<hash_pc, hash_pairs, hash_keys>>
upsert_vars == <<up_pc, up_variants, up_calls>>
swatch_vars == <<sw_pc, swatch_labels, max_colors, discounted_name, color_selectors, sw_idx,
                 sw_rows>>
stock_vars == <<st_pc, page_nd, page_phase, next_data, st_idx, color_name, size_qty_map,
                sizes_before, st_rows>>
unit_vars == <<links_vars, price_vars, pdp_vars, csv_vars, hash_vars, upsert_vars,
               swatch_vars, stock_vars>>

(* all variables but those of one of these functions *)
outside_links == <<crawl_vars, price_vars, pdp_vars, csv_vars, hash_vars, upsert_vars,
                   swatch_vars, stock_vars>>
outside_prices == <<crawl_vars, links_vars, pdp_vars, csv_vars, hash_vars, upsert_vars,
                    swatch_vars, stock_vars>>
outside_pdp == <<crawl_vars, links_vars, price_vars, csv_vars, hash_vars, upsert_vars,
                 swatch_vars, stock_vars>>
outside_csv == <<crawl_vars, links_vars, price_vars, pdp_vars, hash_vars, upsert_vars,
                 swatch_vars, stock_vars>>
outside_hash == <<crawl_vars, links_vars, price_vars, pdp_vars, csv_vars, upsert_vars,
                  swatch_vars, stock_vars>>
outside_upsert == <<crawl_vars, links_vars, price_vars, pdp_vars, csv_vars, hash_vars,
                    swatch_vars, stock_vars>>
outside_swatch == <<crawl_vars, links_vars, price_vars, pdp_vars, csv_vars, hash_vars,
                    upsert_vars, stock_vars>>

outside_stock == <<crawl_vars, links_vars, price_vars, pdp_vars, csv_vars, hash_vars,
                   upsert_vars, swatch_vars>>

vars == <<crawl_vars, unit_vars>>

(* the two sinks *)
sink_vars == <<runs, variants, observations, csv>>
(* locals of crawl_category that live for the whole run *)
run_vars == <<run_id, seen_color_keys, product_links, limit, start_at, pause_due>>
(* locals of one iteration of the loop over product_links *)
iter_vars == <<attempt, nav_ok, rows, new_rows, k>>
(* history variables *)
hist_vars == <<written, visited, finish_called, in_stock_calls, links_found>>

----------------------------------------------------------------------------
(* Bounds of the model *)

MaxRuns == 2       \* invocations of crawl_category
MaxLinks == 2      \* links discovered, summed over the invocations
MaxRows == 2       \* rows one parse_pdp call returns
MaxArg == 1        \* largest value of the item limit and of the start offset

(* Optional values: None is Python's None, Some(x) a present value *)
None == <<>>
Some(x) == <<x>>
IsSome(o) == o # None
Val(o) == o[1]

(* The product pages of the storefront, in ascending (sorted) order *)
AllURLS == <<"https://o/shop/a", "https://o/shop/b", "https://o/shop/c",
             "https://o/shop/d">>
URLS == SubSeq(AllURLS, 1, MaxLinks)
Colors == {"Black", "Blue"}

(* What the field resolvers of parse_pdp yield for one color: name and image_url
   may be missing, num_sizes_in_stock is len(sizes_in_list) *)
Details ==
    { [name |-> None, image_url |-> None, num_sizes_in_stock |-> 0],
      [name |-> Some("Jacket"), image_url |-> Some("img1"), num_sizes_in_stock |-> 1],
      [name |-> Some("Parka"), image_url |-> Some("img2"), num_sizes_in_stock |-> 0] }

----------------------------------------------------------------------------
(* Pure helpers *)

(* scroll_and_collect_product_links returns sorted(absolute): a duplicate-free
   ascending list, here the first m product pages of the storefront *)
LinkLists(n) == {SubSeq(URLS, 1, m) : m \in 0..n}

(* the identity string f"{product_url}|{color or ''}" *)
IdentityString(product_url, color) ==
    product_url \o "|" \o (IF IsSome(color) THEN Val(color) ELSE "")

(* hashlib.sha1(identity).hexdigest(): the digest of the identity string,
   taken as injective on it *)
compute_color_hash_key(product_url, color) ==
    <<"sha1", IdentityString(product_url, color)>>

(* the AggregatedRow parse_pdp builds for one color of the page at url *)
AggregatedRow(url, color, d, ts) ==
    [crawl_ts |-> ts, name |-> d.name, product_url |-> url, color |-> Some(color),
     image_url |-> d.image_url, num_sizes_in_stock |-> d.num_sizes_in_stock,
     hash_key |-> compute_color_hash_key(url, Some(color))]

(* x or "" *)
OrEmpty(o) == IF IsSome(o) /\ Val(o) # "" THEN Val(o) ELSE ""

(* the line append_rows writes for a row *)
CsvLine(r) ==
    [crawl_ts |-> r.crawl_ts, name |-> OrEmpty(r.name), product_url |-> r.product_url,
     color |-> OrEmpty(r.color), image_url |-> OrEmpty(r.image_url),
     num_sizes_in_stock |-> r.num_sizes_in_stock, hash_key |-> r.hash_key]

RECURSIVE CsvLines(_)
CsvLines(rs) == IF rs = <<>> THEN <<>> ELSE <<CsvLine(Head(rs))>> \o CsvLines(Tail(rs))

RECURSIVE CsvMarks(_)
CsvMarks(rs) ==
    IF rs = <<>> THEN <<>>
    ELSE <<<<"csv", Head(rs).product_url, OrEmpty(Head(rs).color)>>>> \o CsvMarks(Tail(rs))

(* the rows parse_pdp can return for the page at url when the clock shows t:
   one row per color iteration that did not raise, each stamped by its own
   now_iso() call; two swatches may resolve to the same color label *)
PageRows(url, t) ==
    UNION {
      { [j \in 1..n |-> AggregatedRow(url, c[j], d[j], t + j)] :
          c \in [1..n -> Colors], d \in [1..n -> Details] }
      : n \in 0..MaxRows }

(* the key of the run's dedup set, f"{r.product_url}|{r.color or ''}" *)
DedupKey(r) == r.product_url \o "|" \o OrEmpty(r.color)

(* faulty variant of IsDuplicate: the membership test is lost *)
IsDuplicateNever(r, seen) == FALSE

(* whether the dedup loop drops r, given the keys seen so far *)
IsDuplicate(r, seen) == DedupKey(r) \in seen

RECURSIVE DedupRows(_, _)
(* the dedup loop over rows: <<new_rows, seen_color_keys>> after it *)
DedupRows(rs, seen) ==
    IF rs = <<>> THEN <<(<<>>), seen>>
    ELSE IF IsDuplicate(Head(rs), seen) THEN DedupRows(Tail(rs), seen)
    ELSE LET rest == DedupRows(Tail(rs), seen \cup {DedupKey(Head(rs))})
         IN  <<(<<Head(rs)>>) \o rest[1], rest[2]>>

----------------------------------------------------------------------------
(* The relational store, db.py *)

EmptyTable == [h \in {} |-> None]

(* faulty variant of begin_run: the INSERT fills finished_at as well *)
begin_run_stamped(rs, id, started_at_iso) ==
    Append(rs, [run_id |-> id, started_at |-> started_at_iso,
                finished_at |-> Some(started_at_iso)])

(* begin_run: INSERT INTO runs(run_id, started_at) *)
begin_run(rs, id, started_at_iso) ==
    Append(rs, [run_id |-> id, started_at |-> started_at_iso, finished_at |-> None])

(* finish_run: UPDATE runs SET finished_at = ? WHERE run_id = ? *)
finish_run(rs, id, finished_at_iso) ==
    [j \in DOMAIN rs |->
        IF rs[j].run_id = id THEN [rs[j] EXCEPT !.finished_at = Some(finished_at_iso)]
        ELSE rs[j]]

(* SQL COALESCE(a, b) *)
Coalesce(a, b) == IF IsSome(a) THEN a ELSE b

(* 1 if num_in_stock > 0 else 0 *)
StockFlag(num_in_stock) == IF num_in_stock > 0 THEN 1 ELSE 0

(* faulty variant of EverInStock: the flag is overwritten like last_seen_at *)
EverInStockOverwritten(excluded, stored) == excluded

(* CASE WHEN excluded.ever_in_stock = 1 THEN 1 ELSE variants.ever_in_stock END *)
EverInStock(excluded, stored) == IF excluded = 1 THEN 1 ELSE stored

(* faulty variant of FillColumn: the COALESCE arguments the other way round *)
FillColumnStoredFirst(excluded, stored) == Coalesce(stored, excluded)

(* the value of column name / image_url after ON CONFLICT DO UPDATE:
   COALESCE(excluded.name, variants.name) *)
FillColumn(excluded, stored) == Coalesce(excluded, stored)

(* faulty variant of upsert_variant: INSERT OR REPLACE, the stored row gives way
   to the new one *)
replace_variant(vs, hash_key, product_url, color, name, image_url, crawl_ts, num_in_stock) ==
    [h \in DOMAIN vs \cup {hash_key} |->
        IF h = hash_key
        THEN [product_url |-> product_url, color |-> OrEmpty(color), name |-> name,
              image_url |-> image_url, first_seen_at |-> crawl_ts,
              last_seen_at |-> crawl_ts, ever_in_stock |-> StockFlag(num_in_stock)]
        ELSE vs[h]]

(* faulty variant of upsert_variant: an UPDATE only, a variant that is not in
   the table is not created *)
update_variant(vs, hash_key, product_url, color, name, image_url, crawl_ts, num_in_stock) ==
    IF hash_key \in DOMAIN vs
    THEN [vs EXCEPT ![hash_key] =
             [@ EXCEPT !.product_url = product_url, !.color = OrEmpty(color),
                       !.last_seen_at = crawl_ts]]
    ELSE vs

(* upsert_variant: INSERT ... ON CONFLICT(hash_key) DO UPDATE SET ... *)
upsert_variant(vs, hash_key, product_url, color, name, image_url, crawl_ts, num_in_stock) ==
    LET color_val == OrEmpty(color)
        flag == StockFlag(num_in_stock)
        rec == IF hash_key \in DOMAIN vs
               THEN [product_url |-> product_url,
                     color |-> color_val,
                     name |-> FillColumn(name, vs[hash_key].name),
                     image_url |-> FillColumn(image_url, vs[hash_key].image_url),
                     first_seen_at |-> vs[hash_key].first_seen_at,
                     last_seen_at |-> crawl_ts,
                     ever_in_stock |-> EverInStock(flag, vs[hash_key].ever_in_stock)]
               ELSE [product_url |-> product_url,
                     color |-> color_val,
                     name |-> name,
                     image_url |-> image_url,
                     first_seen_at |-> crawl_ts,
                     last_seen_at |-> crawl_ts,
                     ever_in_stock |-> flag]
    IN  [h \in DOMAIN vs \cup {hash_key} |-> IF h = hash_key THEN rec ELSE vs[h]]

(* faulty variant of insert_observation: the observation of a variant that has
   one already takes its place (INSERT OR REPLACE keyed by hash_key) *)
replace_observation(obs, rid, hash_key, crawl_ts, num_sizes_in_stock) ==
    LET e == [obs_id |-> Len(obs) + 1, run_id |-> rid, hash_key |-> hash_key,
              crawl_ts |-> crawl_ts, num_sizes_in_stock |-> num_sizes_in_stock]
    IN  IF \E n \in DOMAIN obs : obs[n].hash_key = hash_key
        THEN [n \in DOMAIN obs |-> IF obs[n].hash_key = hash_key THEN e ELSE obs[n]]
        ELSE Append(obs, e)

(* insert_observation: INSERT INTO observations(...); obs_id AUTOINCREMENT *)
insert_observation(obs, rid, hash_key, crawl_ts, num_sizes_in_stock) ==
    Append(obs, [obs_id |-> Len(obs) + 1, run_id |-> rid, hash_key |-> hash_key,
                 crawl_ts |-> crawl_ts, num_sizes_in_stock |-> num_sizes_in_stock])

----------------------------------------------------------------------------
(* Initial state: empty store, empty flat log, no run started *)

CrawlIdle ==
    /\ pc = "idle"
    /\ fault = "none"
    /\ last_event = "none"
    /\ runs = <<>>
    /\ variants = EmptyTable
    /\ observations = <<>>
    /\ csv = <<>>
    /\ run_id = 0
    /\ seen_color_keys = {}
    /\ session = "none"
    /\ product_links = <<>>
    /\ limit = None
    /\ start_at = 0
    /\ i = 0
    /\ attempt = 0
    /\ nav_ok = FALSE
    /\ rows = <<>>
    /\ new_rows = <<>>
    /\ k = 1
    /\ clock = 0
    /\ written = <<>>
    /\ visited = {}
    /\ finish_called = FALSE
    /\ in_stock_calls = {}
    /\ links_found = 0
    /\ pause_due = FALSE

(* no function is being checked on its own *)
LinksOff ==
    /\ sc_pc = "off"
    /\ scroll_n = 0
    /\ last_count = -1
    /\ stable_iterations = 0
    /\ candidate_links = {}
    /\ last_change = 0
    /\ returned_links = None

PricesOff ==
    /\ price_pc = "off"
    /\ list_price = None
    /\ sale_price = None
    /\ discount = None
    /\ price_given = <<None, None>>
    /\ price_derived = <<None, None>>

PdpOff ==
    /\ pdp_pc = "off"
    /\ color_idx = 0
    /\ n_colors = 0
    /\ base_name = None
    /\ sizes = <<>>
    /\ sizes_from = "none"
    /\ sizes_dropped = 0
    /\ fields = [name |-> None, image_url |-> None, inventory_amount |-> None]
    /\ outcomes = <<>>
    /\ pdp_rows = <<>>

CsvOff ==
    /\ csv_pc = "off"
    /\ log_file = [exists |-> FALSE, lines |-> <<>>]
    /\ backups = <<>>
    /\ rename_raises = FALSE
    /\ log_read = FALSE
    /\ log_before = [exists |-> FALSE, lines |-> <<>>]
    /\ appends = 0
    /\ csv_runs = 0

HashOff ==
    /\ hash_pc = "off"
    /\ hash_pairs = <<>>
    /\ hash_keys = <<>>

UpsertOff ==
    /\ up_pc = "off"
    /\ up_variants = [h \in {} |-> <<>>]
    /\ up_calls = <<>>

SwatchOff ==
    /\ sw_pc = "off"
    /\ swatch_labels = <<>>
    /\ max_colors = 0
    /\ discounted_name = <<>>
    /\ color_selectors = <<>>
    /\ sw_idx = 0
    /\ sw_rows = <<>>

StockOff ==
    /\ st_pc = "off"
    /\ page_nd = <<>>
    /\ page_phase = "none"
    /\ next_data = <<>>
    /\ st_idx = 0
    /\ color_name = <<>>
    /\ size_qty_map = <<>>
    /\ sizes_before = <<>>
    /\ st_rows = <<>>

UnitsIdle ==
    /\ LinksOff /\ PricesOff /\ PdpOff /\ CsvOff /\ HashOff /\ UpsertOff /\ SwatchOff
    /\ StockOff

Init == CrawlIdle /\ UnitsIdle

----------------------------------------------------------------------------
(* The orchestrator, scraper.py crawl_category *)

Running == {"launch", "goto_category", "discover", "loop", "nav", "parse", "dedupe",
            "append", "upsert", "insert", "pause", "close", "finish"}

(* the href of the current loop iteration *)
href == product_links[i + 1]

(* the locals of one loop iteration before the iteration assigns them *)
FreshIteration ==
    /\ attempt' = 0
    /\ nav_ok' = FALSE
    /\ rows' = <<>>
    /\ new_rows' = <<>>
    /\ k' = 1

(* crawl_category returns or an exception leaves it: its locals are gone; the
   async-with block stops the automation session on the way out *)
LeaveFrame ==
    /\ run_id' = 0
    /\ seen_color_keys' = {}
    /\ product_links' = <<>>
    /\ limit' = None
    /\ start_at' = 0
    /\ pause_due' = FALSE
    /\ i' = 0
    /\ FreshIteration
    /\ session' = IF session = "open" THEN "closed" ELSE session

(* an exception that crawl_category does not catch; main's handler logs it *)
Crash(f) ==
    /\ pc' = "crashed"
    /\ fault' = f
    /\ last_event' = IF f = "interrupt" THEN "Interrupted by user" ELSE "Fatal error"
    /\ LeaveFrame

(* crawl_category up to the async-with block: ensure_schema, begin_run,
   ensure_csv, and a fresh dedup set *)
StartRun ==
    /\ pc \in {"idle", "done", "crashed"}
    /\ Len(runs) < MaxRuns
    /\ links_found < MaxLinks
    /\ clock' = clock + 1
    /\ run_id' = Len(runs) + 1
    /\ runs' = begin_run(runs, Len(runs) + 1, clock + 1)
    /\ seen_color_keys' = {}
    /\ pc' = "launch"
    /\ fault' = "none"
    /\ last_event' = "none"
    /\ session' = "none"
    /\ written' = <<>>
    /\ visited' = {}
    /\ finish_called' = FALSE
    /\ UNCHANGED <<unit_vars, variants, observations, csv, product_links, limit,
                   start_at, pause_due, i, iter_vars, in_stock_calls, links_found>>

(* chromium.launch, new_context, new_page *)
Launch ==
    /\ pc = "launch"
    /\ session' = "open"
    /\ pc' = "goto_category"
    /\ UNCHANGED <<unit_vars, fault, last_event, sink_vars, run_vars, i, iter_vars, clock,
                   hist_vars>>

LaunchFail ==
    /\ pc = "launch"
    /\ Crash("launch")
    /\ UNCHANGED <<unit_vars, sink_vars, clock, hist_vars>>

(* page.goto(category_url) and the jitter sleep after it; not retried *)
GotoCategory ==
    /\ pc = "goto_category"
    /\ last_event' = "Navigating to category"
    /\ pc' = "discover"
    /\ UNCHANGED <<unit_vars, fault, sink_vars, run_vars, session, i, iter_vars, clock,
                   hist_vars>>

GotoCategoryFail ==
    /\ pc = "goto_category"
    /\ Crash("goto")
    /\ UNCHANGED <<unit_vars, sink_vars, clock, hist_vars>>

(* the link list: [category_url] in single-PDP mode, else the list returned by
   scroll_and_collect_product_links; then limit and start_at are read from argv *)
Discover ==
    /\ pc = "discover"
    /\ \E links \in LinkLists(MaxLinks - links_found),
          lim \in {None} \cup {Some(n) : n \in 0..MaxArg},
          s \in 0..MaxArg :
          /\ product_links' = links
          /\ limit' = lim
          /\ start_at' = s
          /\ links_found' = links_found + Len(links)
    /\ last_event' = "Discovered product links"
    /\ i' = 0
    /\ pc' = "loop"
    /\ UNCHANGED <<unit_vars, fault, sink_vars, run_id, seen_color_keys, pause_due,
                   session, iter_vars, clock, written, visited, finish_called,
                   in_stock_calls>>

DiscoverFail ==
    /\ pc = "discover"
    /\ Crash("discover")
    /\ UNCHANGED <<unit_vars, sink_vars, clock, hist_vars>>

(* faulty variant of BelowLimit: the limit counts the links from start_at on *)
BelowLimitFromOffset(idx, lim) == ~(IsSome(lim) /\ idx - start_at >= Val(lim))

(* "limit is not None and i >= limit" is false *)
BelowLimit(idx, lim) == ~(IsSome(lim) /\ idx >= Val(lim))

(* head of "for i, href in enumerate(product_links)" with its two guards *)
LoopHead ==
    /\ pc = "loop"
    /\ IF i >= Len(product_links)
       THEN /\ pc' = "close"
            /\ UNCHANGED <<i, last_event, visited>>
       ELSE IF i < start_at
       THEN /\ i' = i + 1
            /\ UNCHANGED <<pc, last_event, visited>>
       ELSE IF ~BelowLimit(i, limit)
       THEN /\ pc' = "close"
            /\ UNCHANGED <<i, last_event, visited>>
       ELSE /\ pc' = "nav"
            /\ last_event' = "Visiting PDP"
            /\ visited' = visited \cup {i}
            /\ UNCHANGED i
    /\ UNCHANGED <<unit_vars, fault, sink_vars, run_vars, session, iter_vars, clock, written,
                   finish_called, in_stock_calls, links_found>>

(* faulty variant of NavExhausted: range(4) *)
NavExhaustedLate(a) == a + 1 >= 4

(* range(3): the retry loop is over once the attempt with index a has failed *)
NavExhausted(a) == a + 1 >= 3

(* page.goto(href) succeeds; break, then the pdp_delay sleep *)
NavOk ==
    /\ pc = "nav"
    /\ nav_ok' = TRUE
    /\ pause_due' = TRUE
    /\ pc' = "parse"
    /\ UNCHANGED <<unit_vars, fault, last_event, sink_vars, run_id, seen_color_keys,
                   product_links, limit, start_at, session, i, attempt, rows,
                   new_rows, k, clock, hist_vars>>

(* page.goto(href) raises PWError: log, jitter sleep, next attempt; when the
   attempts are used up nav_ok is false and the link is skipped (continue) *)
NavFail ==
    /\ pc = "nav"
    /\ last_event' = "Navigation failed"
    /\ IF NavExhausted(attempt)
       THEN /\ i' = i + 1
            /\ pc' = "loop"
            /\ FreshIteration
       ELSE /\ attempt' = attempt + 1
            /\ UNCHANGED <<i, pc, nav_ok, rows, new_rows, k>>
    /\ UNCHANGED <<unit_vars, fault, sink_vars, run_vars, session, clock, hist_vars>>

(* asyncio.wait_for(parse_pdp(...), timeout=180) returns the page's rows *)
ParseOk ==
    /\ pc = "parse"
    /\ \E rs \in PageRows(href, clock) :
          /\ rows' = rs
          /\ clock' = clock + Len(rs)
    /\ last_event' = "parse_pdp"
    /\ pc' = "dedupe"
    /\ UNCHANGED <<unit_vars, fault, sink_vars, run_vars, session, i, attempt, nav_ok, new_rows,
                   k, hist_vars>>

(* faulty variant of ParseFail: the handler logs but does not continue, and the
   rows built before the failure go on to the dedup *)
ParseFailFallsThrough ==
    /\ pc = "parse"
    /\ \E rs \in PageRows(href, clock) :
          /\ rows' = rs
          /\ clock' = clock + Len(rs)
    /\ last_event' = "PDP parse failed"
    /\ pc' = "dedupe"
    /\ UNCHANGED <<unit_vars, fault, sink_vars, run_vars, session, i, attempt, nav_ok, new_rows,
                   k, hist_vars>>

(* faulty variant of ParseFail: no handler around parse_pdp, the exception
   leaves crawl_category *)
ParseFailRaises ==
    /\ pc = "parse"
    /\ Crash("parse_pdp")
    /\ UNCHANGED <<unit_vars, sink_vars, clock, hist_vars>>

(* parse_pdp raises or times out: log and continue with the next link *)
ParseFail ==
    /\ pc = "parse"
    /\ last_event' = "PDP parse failed"
    /\ i' = i + 1
    /\ pc' = "loop"
    /\ FreshIteration
    /\ UNCHANGED <<unit_vars, fault, sink_vars, run_vars, session, clock, hist_vars>>

(* the dedup loop, and the branch on new_rows *)
Dedupe ==
    /\ pc = "dedupe"
    /\ LET d == DedupRows(rows, seen_color_keys)
       IN  /\ new_rows' = d[1]
           /\ seen_color_keys' = d[2]
           /\ IF d[1] # <<>>
              THEN pc' = "append" /\ UNCHANGED last_event
              ELSE pc' = "pause" /\ last_event' = "No rows extracted"
    /\ UNCHANGED <<unit_vars, fault, sink_vars, run_id, product_links, limit, start_at,
                   pause_due, session, i, attempt, nav_ok, rows, k, clock, hist_vars>>

(* faulty variant of AppendRows: the store loop is left out *)
AppendRowsOnly ==
    /\ pc = "append"
    /\ csv' = csv \o CsvLines(new_rows)
    /\ written' = written \o CsvMarks(new_rows)
    /\ pc' = "pause"
    /\ UNCHANGED <<unit_vars, fault, last_event, runs, variants, observations, run_vars, session,
                   i, iter_vars, clock, visited, finish_called, in_stock_calls,
                   links_found>>

(* append_rows(csv_path, new_rows): one line per kept row *)
AppendRows ==
    /\ pc = "append"
    /\ csv' = csv \o CsvLines(new_rows)
    /\ written' = written \o CsvMarks(new_rows)
    /\ pc' = "upsert"
    /\ UNCHANGED <<unit_vars, fault, last_event, runs, variants, observations, run_vars, session,
                   i, iter_vars, clock, visited, finish_called, in_stock_calls,
                   links_found>>

(* append_rows raises at the open or while writing line n + 1: the n lines
   written before stay in the file; nothing in crawl_category catches the
   exception *)
AppendRowsFail ==
    /\ pc = "append"
    /\ \E n \in 0..(Len(new_rows) - 1) :
          /\ csv' = csv \o CsvLines(SubSeq(new_rows, 1, n))
          /\ written' = written \o CsvMarks(SubSeq(new_rows, 1, n))
    /\ Crash("append_rows")
    /\ UNCHANGED <<unit_vars, runs, variants, observations, clock, visited, finish_called,
                   in_stock_calls, links_found>>

(* db.upsert_variant(...) for new_rows[k] *)
UpsertVariant ==
    /\ pc = "upsert"
    /\ LET r == new_rows[k]
       IN  /\ variants' = upsert_variant(variants, r.hash_key, r.product_url, r.color,
                                         r.name, r.image_url, r.crawl_ts,
                                         r.num_sizes_in_stock)
           /\ written' = Append(written, <<"upsert", r.product_url, OrEmpty(r.color)>>)
           /\ in_stock_calls' = IF r.num_sizes_in_stock > 0
                                THEN in_stock_calls \cup {r.hash_key}
                                ELSE in_stock_calls
    /\ pc' = "insert"
    /\ UNCHANGED <<unit_vars, fault, last_event, runs, observations, csv, run_vars, session, i,
                   iter_vars, clock, visited, finish_called, links_found>>

UpsertVariantFail ==
    /\ pc = "upsert"
    /\ Crash("upsert_variant")
    /\ UNCHANGED <<unit_vars, sink_vars, clock, hist_vars>>

(* db.insert_observation(...) for new_rows[k], then the next kept row *)
InsertObservation ==
    /\ pc = "insert"
    /\ LET r == new_rows[k]
       IN  /\ observations' = insert_observation(observations, run_id, r.hash_key,
                                                 r.crawl_ts, r.num_sizes_in_stock)
           /\ written' = Append(written, <<"obs", r.product_url, OrEmpty(r.color)>>)
    /\ IF k < Len(new_rows)
       THEN /\ k' = k + 1
            /\ pc' = "upsert"
            /\ UNCHANGED last_event
       ELSE /\ pc' = "pause"
            /\ last_event' = "Appended rows"
            /\ UNCHANGED k
    /\ UNCHANGED <<unit_vars, fault, runs, variants, csv, run_vars, session, i, attempt, nav_ok,
                   rows, new_rows, clock, visited, finish_called, in_stock_calls,
                   links_found>>

InsertObservationFail ==
    /\ pc = "insert"
    /\ Crash("insert_observation")
    /\ UNCHANGED <<unit_vars, sink_vars, clock, hist_vars>>

(* jitter_sleep(jitter_min_ms + 400, jitter_max_ms + 1200), end of the loop body *)
Politeness ==
    /\ pc = "pause"
    /\ pause_due' = FALSE
    /\ i' = i + 1
    /\ pc' = "loop"
    /\ FreshIteration
    /\ UNCHANGED <<unit_vars, fault, last_event, sink_vars, run_id, seen_color_keys,
                   product_links, limit, start_at, session, clock, hist_vars>>

(* context.close(), browser.close() *)
Close ==
    /\ pc = "close"
    /\ session' = "closed"
    /\ pc' = "finish"
    /\ UNCHANGED <<unit_vars, fault, last_event, sink_vars, run_vars, i, iter_vars, clock,
                   hist_vars>>

(* db.finish_run(run_id, now_iso()), then crawl_category returns *)
FinishRun ==
    /\ pc = "finish"
    /\ clock' = clock + 1
    /\ runs' = finish_run(runs, run_id, clock + 1)
    /\ finish_called' = TRUE
    /\ pc' = "done"
    /\ LeaveFrame
    /\ UNCHANGED <<unit_vars, fault, last_event, variants, observations, csv, written, visited,
                   in_stock_calls, links_found>>

FinishRunFail ==
    /\ pc = "finish"
    /\ clock' = clock + 1
    /\ finish_called' = TRUE
    /\ Crash("finish_run")
    /\ UNCHANGED <<unit_vars, sink_vars, written, visited, in_stock_calls, links_found>>

(* KeyboardInterrupt while the run is under way: no handler in crawl_category
   catches it, main logs "Interrupted by user" *)
Interrupt ==
    /\ pc \in Running
    /\ Crash("interrupt")
    /\ UNCHANGED <<unit_vars, sink_vars, clock, hist_vars>>

Next ==
    \/ StartRun
    \/ Launch
    \/ LaunchFail
    \/ GotoCategory
    \/ GotoCategoryFail
    \/ Discover
    \/ DiscoverFail
    \/ LoopHead
    \/ NavOk
    \/ NavFail
    \/ ParseOk
    \/ ParseFail
    \/ Dedupe
    \/ AppendRows
    \/ AppendRowsFail
    \/ UpsertVariant
    \/ UpsertVariantFail
    \/ InsertObservation
    \/ InsertObservationFail
    \/ Politeness
    \/ Close
    \/ FinishRun
    \/ FinishRunFail
    \/ Interrupt

Spec == Init /\ [][Next]_vars

(* The crawl when no sink write raises and nobody interrupts it; the program
   keeps running: a step that can be taken is taken *)
NextNoSinkFault ==
    \/ StartRun
    \/ Launch
    \/ LaunchFail
    \/ GotoCategory
    \/ GotoCategoryFail
    \/ Discover
    \/ DiscoverFail
    \/ LoopHead
    \/ NavOk
    \/ NavFail
    \/ ParseOk
    \/ ParseFail
    \/ Dedupe
    \/ AppendRows
    \/ UpsertVariant
    \/ InsertObservation
    \/ Politeness
    \/ Close
    \/ FinishRun

SpecNoSinkFault == Init /\ [][NextNoSinkFault]_vars /\ WF_vars(NextNoSinkFault)

----------------------------------------------------------------------------
(* Strings whose characters the code inspects are sequences of one-character
   strings *)

(* s.startswith(pre) *)
StartsWith(s, pre) == Len(s) >= Len(pre) /\ SubSeq(s, 1, Len(pre)) = pre

(* sub in s *)
Contains(s, sub) ==
    \E j \in 1..(Len(s) - Len(sub) + 1) : SubSeq(s, j, j + Len(sub) - 1) = sub

(* position of the first character of s that is in cs, Len(s) + 1 if none *)
FirstIndex(s, cs) ==
    IF \E j \in 1..Len(s) : s[j] \in cs
    THEN CHOOSE j \in 1..Len(s) : s[j] \in cs /\ \A m \in 1..(j - 1) : s[m] \notin cs
    ELSE Len(s) + 1

(* position of the last occurrence of c in s, 0 if none *)
LastIndex(s, c) ==
    IF \E j \in 1..Len(s) : s[j] = c
    THEN CHOOSE j \in 1..Len(s) : s[j] = c /\ \A m \in (j + 1)..Len(s) : s[m] # c
    ELSE 0

(* the characters of the model's strings in code point order *)
Alphabet == <<" ", "$", ",", "-", ".", "/", "0", "1", "2", "3", "4", "5", "6", "7",
              "8", "9", ":", "?", "A", "B", "C", "D", "M", "R", "S", "a", "b", "c", "d",
              "e", "h", "o", "p", "r", "s", "t", "u", "x", "|">>
CodePoint(c) == CHOOSE n \in DOMAIN Alphabet : Alphabet[n] = c
Lowercase == {"a", "b", "c", "d", "e", "h", "o", "p", "r", "s", "t", "u", "x"}

RECURSIVE LexLess(_, _)
(* a < b for two str values: the first differing code point decides *)
LexLess(a, b) ==
    IF a = <<>> THEN b # <<>>
    ELSE IF b = <<>> THEN FALSE
    ELSE IF Head(a) = Head(b) THEN LexLess(Tail(a), Tail(b))
    ELSE CodePoint(Head(a)) < CodePoint(Head(b))

RECURSIVE sorted(_)
(* sorted(S) for a set S of str values *)
sorted(S) ==
    IF S = {} THEN <<>>
    ELSE LET m == CHOOSE x \in S : \A y \in S \ {x} : LexLess(x, y)
         IN  <<m>> \o sorted(S \ {m})

----------------------------------------------------------------------------
(* Link discovery, scraper.py scroll_and_collect_product_links *)

ScrollCap == 40        \* for _ in range(40)
StableLimit == 3       \* if stable_iterations >= 3: break
MaxHrefs == 5          \* anchors the category page can show

S_https == <<"h", "t", "t", "p", "s">>
S_http == <<"h", "t", "t", "p">>
S_sep == <<":", "/", "/">>
S_shop == <<"/", "s", "h", "o", "p", "/">>
S_product == <<"/", "p", "r", "o", "d", "u", "c", "t", "/">>
S_products == <<"/", "p", "r", "o", "d", "u", "c", "t", "s", "/">>

(* page.url of the category page: https://o/c *)
PageUrl == S_https \o S_sep \o <<"o", "/", "c">>

(* href attributes the page's anchors can carry:
   /shop/a, https://o/shop/a, http://o/shop/a, https://x/shop/b, /products/p,
   x/shop/c, /about *)
AllHrefs ==
    << S_shop \o <<"a">>,
       S_https \o S_sep \o <<"o">> \o S_shop \o <<"a">>,
       S_http \o S_sep \o <<"o">> \o S_shop \o <<"a">>,
       S_https \o S_sep \o <<"x">> \o S_shop \o <<"b">>,
       S_products \o <<"p">>,
       <<"x">> \o S_shop \o <<"c">>,
       <<"/", "a", "b", "o", "u", "t">> >>
Hrefs == {AllHrefs[n] : n \in 1..MaxHrefs}

(* urlsplit's test for a scheme: a colon after one or more scheme characters *)
HasScheme(u) ==
    LET c == FirstIndex(u, {":"})
    IN  c > 1 /\ c <= Len(u) /\ \A j \in 1..(c - 1) : u[j] \in Lowercase

(* urllib.parse.urlparse(u): scheme, netloc and path of u *)
urlparse(u) ==
    LET c == FirstIndex(u, {":"})
        rest == IF HasScheme(u) THEN SubSeq(u, c + 1, Len(u)) ELSE u
        hasnet == StartsWith(rest, <<"/", "/">>)
        afternet == IF hasnet THEN SubSeq(rest, 3, Len(rest)) ELSE rest
        e == FirstIndex(afternet, {"/", "?"})
        tail == IF hasnet THEN SubSeq(afternet, e, Len(afternet)) ELSE rest
    IN  [scheme |-> IF HasScheme(u) THEN SubSeq(u, 1, c - 1) ELSE <<>>,
         netloc |-> IF hasnet THEN SubSeq(afternet, 1, e - 1) ELSE <<>>,
         path |-> SubSeq(tail, 1, FirstIndex(tail, {"?"}) - 1)]

(* urllib.parse.urljoin(base, url) for a reference without dot segments: a
   reference with a scheme of its own is returned as it is, a relative path
   replaces the last segment of the base path *)
urljoin(base, url) ==
    IF HasScheme(url) THEN url
    ELSE LET b == urlparse(base)
         IN  b.scheme \o S_sep \o b.netloc
               \o SubSeq(b.path, 1, LastIndex(b.path, "/")) \o url

(* origin = f"{urlparse(page.url).scheme}://{urlparse(page.url).netloc}" *)
PageOrigin(page_url) == urlparse(page_url).scheme \o S_sep \o urlparse(page_url).netloc

(* the filter of the scroll loop: "/shop/" in href or re.search(r"/products?/", href) *)
IsProductHref(h) == Contains(h, S_shop) \/ Contains(h, S_product) \/ Contains(h, S_products)

(* abs_url of a candidate href *)
AbsUrl(page_url, h) ==
    IF StartsWith(h, S_http) THEN h
    ELSE IF StartsWith(h, <<"/">>) THEN PageOrigin(page_url) \o h
    ELSE urljoin(page_url, h)

(* the two "continue" tests are both false: same netloc, "/shop/" in the path *)
KeepAbs(page_url, a) ==
    /\ urlparse(a).netloc = urlparse(PageOrigin(page_url)).netloc
    /\ Contains(urlparse(a).path, S_shop)

(* the set absolute built from set(product_links) *)
Absolute(page_url, links) ==
    {a \in {AbsUrl(page_url, h) : h \in links} : KeepAbs(page_url, a)}

(* faulty variant of StableEnough: one more stable iteration is waited for *)
StableEnoughLate(n) == n >= StableLimit + 1

(* if stable_iterations >= 3: break *)
StableEnough(n) == n >= StableLimit

(* one iteration of the scroll loop: collect the anchors, filter them, count
   the distinct candidates, scroll and sleep, update last_count and
   stable_iterations, and leave the loop when the count has been stable or
   the range is used up *)
CollectAndScroll ==
    /\ sc_pc = "collect"
    /\ \E anchors \in SUBSET Hrefs :
          LET links == {h \in anchors : IsProductHref(h)}
              count == Cardinality(links)
              stable == IF count = last_count THEN stable_iterations + 1 ELSE 0
          IN  /\ candidate_links' = links
              /\ scroll_n' = scroll_n + 1
              /\ stable_iterations' = stable
              /\ last_change' = IF count = last_count THEN last_change ELSE scroll_n + 1
              /\ last_count' = count
              /\ sc_pc' = IF StableEnough(stable) \/ scroll_n + 1 >= ScrollCap
                          THEN "normalize" ELSE "collect"
    /\ UNCHANGED <<outside_links, returned_links>>

(* page.eval_on_selector_all or page.evaluate raises: nothing in the function
   catches it *)
CollectFail ==
    /\ sc_pc = "collect"
    /\ sc_pc' = "raised"
    /\ UNCHANGED <<outside_links, scroll_n, last_count, stable_iterations,
                   candidate_links, last_change, returned_links>>

(* the normalisation after the loop and return sorted(absolute) *)
NormalizeAndReturn ==
    /\ sc_pc = "normalize"
    /\ returned_links' = Some(sorted(Absolute(PageUrl, candidate_links)))
    /\ sc_pc' = "returned"
    /\ UNCHANGED <<outside_links, scroll_n, last_count, stable_iterations,
                   candidate_links, last_change>>

(* scroll_and_collect_product_links is called *)
LinksStart ==
    /\ sc_pc = "collect"
    /\ scroll_n = 0
    /\ last_count = -1
    /\ stable_iterations = 0
    /\ candidate_links = {}
    /\ last_change = 0
    /\ returned_links = None

InitLinks ==
    /\ CrawlIdle /\ PricesOff /\ PdpOff /\ CsvOff /\ HashOff /\ UpsertOff /\ SwatchOff /\ StockOff
    /\ LinksStart

NextLinks ==
    \/ CollectAndScroll
    \/ CollectFail
    \/ NormalizeAndReturn

SpecLinks == InitLinks /\ [][NextLinks]_vars

----------------------------------------------------------------------------
(* Price reconciliation, scraper.py compute_missing_prices and
   normalize_price_order as parse_pdp calls them.  A float is held as an
   integer number of cents: the price texts of the model have at most two
   decimals. *)

MaxPrices == 6         \* price texts a resolver can yield

Digits == <<"0", "1", "2", "3", "4", "5", "6", "7", "8", "9">>
IsDigit(c) == \E n \in DOMAIN Digits : Digits[n] = c
DigitValue(c) == (CHOOSE n \in DOMAIN Digits : Digits[n] = c) - 1

(* price texts: $100.00, $80.00, "$80.00." (the amount with the period that
   ended its sentence), CAD 120.50, the empty string, $0.05, 1,299.00 *)
AllPriceTexts ==
    << <<"$", "1", "0", "0", ".", "0", "0">>,
       <<"$", "8", "0", ".", "0", "0">>,
       <<"$", "8", "0", ".", "0", "0", ".">>,
       <<"C", "A", "D", " ", "1", "2", "0", ".", "5", "0">>,
       <<>>,
       <<"$", "0", ".", "0", "5">>,
       <<"1", ",", "2", "9", "9", ".", "0", "0">> >>
PriceTexts == {None} \cup {Some(AllPriceTexts[n]) : n \in 1..MaxPrices}

(* discount texts, None or r"\d{1,2}%": 20%, 0%, 5%, 94%, 95% *)
DiscountTexts ==
    {None, Some(<<"2", "0", "%">>), Some(<<"0", "%">>), Some(<<"5", "%">>),
     Some(<<"9", "4", "%">>), Some(<<"9", "5", "%">>)}

(* bool(x) of an Optional[str] *)
Truthy(o) == IsSome(o) /\ Val(o) # <<>>

RECURSIVE IntOf(_)
(* int(ds) of a string of digits, 0 for the empty string *)
IntOf(ds) ==
    IF ds = <<>> THEN 0
    ELSE 10 * IntOf(SubSeq(ds, 1, Len(ds) - 1)) + DigitValue(ds[Len(ds)])

IsNumChar(c) == IsDigit(c) \/ c = "."

(* re.sub(r"[^\d.]", "", p) *)
StripToNumber(p) == SelectSeq(p, IsNumChar)

(* float(s) of a string of digits and periods, in cents: None is ValueError
   (no digit, or more than one period) *)
float(s) ==
    LET d == FirstIndex(s, {"."})
        whole == SubSeq(s, 1, d - 1)
        frac == SubSeq(s, d + 1, Len(s))
    IN  IF (\A j \in 1..Len(s) : s[j] = ".") \/ Contains(frac, <<".">>) THEN None
        ELSE Some(100 * IntOf(whole)
                  + (IF Len(frac) = 1 THEN 10 * IntOf(frac)
                     ELSE IntOf(SubSeq(frac, 1, 2))))

(* to_float of normalize_price_order *)
to_float(p) ==
    IF \E j \in 1..Len(p) : IsDigit(p[j]) THEN float(StripToNumber(p)) ELSE Some(0)

(* re.search(r"(\d{1,2})%", discount): the percentage, None without a match *)
DiscountPct(txt) ==
    LET m == FirstIndex(txt, {"%"})
    IN  IF m > Len(txt) \/ m = 1 \/ ~IsDigit(txt[m - 1]) THEN None
        ELSE IF m > 2 /\ IsDigit(txt[m - 2]) THEN Some(IntOf(SubSeq(txt, m - 2, m - 1)))
        ELSE Some(IntOf(SubSeq(txt, m - 1, m - 1)))

(* _extract_currency_prefix: re.match(r"^([A-Z]{3}\s|[$...])", price_str) *)
extract_currency_prefix(price_str) ==
    IF StartsWith(price_str, <<"$">>) THEN <<"$">>
    ELSE IF /\ Len(price_str) >= 4
            /\ \A j \in 1..3 : price_str[j] \in {"A", "B", "C", "D"}
            /\ price_str[4] = " "
    THEN SubSeq(price_str, 1, 3)
    ELSE <<>>

RECURSIVE IntText(_)
(* str(n) for n >= 0 *)
IntText(n) == IF n < 10 THEN <<Digits[n + 1]>> ELSE IntText(n \div 10) \o <<Digits[(n % 10) + 1]>>

(* f"{cur} {val:.2f}".strip() if cur else f"{val:.2f}" *)
PriceText(cur, cents) ==
    LET num == IntText(cents \div 100) \o <<".">>
                 \o <<Digits[((cents % 100) \div 10) + 1], Digits[(cents % 10) + 1]>>
    IN  IF cur # <<>> THEN cur \o <<" ">> \o num ELSE num

(* round(a / b + 1e-6, 2) in cents for a, b > 0: half a cent rounds up *)
RoundCents(a, b) == (2 * a + b) \div (2 * b)

(* compute_missing_prices *)
compute_missing_prices(lp, sp, disc) ==
    IF ~Truthy(disc) \/ (Truthy(lp) /\ Truthy(sp)) THEN <<lp, sp>>
    ELSE LET d == DiscountPct(Val(disc))
         IN  IF ~IsSome(d) THEN <<lp, sp>>
             ELSE IF Val(d) <= 0 \/ Val(d) >= 95 THEN <<lp, sp>>
             ELSE IF Truthy(lp) /\ ~Truthy(sp)
             THEN LET num == float(StripToNumber(Val(lp)))
                  IN  IF ~IsSome(num) THEN <<lp, sp>>
                      ELSE <<lp, Some(PriceText(extract_currency_prefix(Val(lp)),
                                                RoundCents(Val(num) * (100 - Val(d)), 100)))>>
             ELSE IF Truthy(sp) /\ ~Truthy(lp)
             THEN LET num == float(StripToNumber(Val(sp)))
                  IN  IF ~IsSome(num) THEN <<lp, sp>>
                      ELSE <<Some(PriceText(extract_currency_prefix(Val(sp)),
                                            RoundCents(Val(num) * 100, 100 - Val(d)))), sp>>
             ELSE <<lp, sp>>

(* normalize_price_order: an exception in to_float returns the pair as it is *)
normalize_price_order(lp, sp) ==
    IF Truthy(lp) /\ Truthy(sp)
    THEN LET l == to_float(Val(lp))
             s == to_float(Val(sp))
         IN  IF IsSome(l) /\ IsSome(s) /\ Val(s) > Val(l) THEN <<sp, lp>> ELSE <<lp, sp>>
    ELSE <<lp, sp>>

(* list_price, sale_price = compute_missing_prices(list_price, sale_price, discount) *)
ComputeMissing ==
    /\ price_pc = "reconcile"
    /\ LET r == compute_missing_prices(list_price, sale_price, discount)
       IN  /\ list_price' = r[1]
           /\ sale_price' = r[2]
           /\ price_derived' = r
    /\ price_pc' = "normalize"
    /\ UNCHANGED <<outside_prices, discount, price_given>>

(* list_price, sale_price = normalize_price_order(list_price, sale_price); the
   row is built with them *)
NormalizeOrder ==
    /\ price_pc = "normalize"
    /\ LET r == normalize_price_order(list_price, sale_price)
       IN  /\ list_price' = r[1]
           /\ sale_price' = r[2]
    /\ price_pc' = "row"
    /\ UNCHANGED <<outside_prices, discount, price_given, price_derived>>

(* the resolvers have yielded list_price, sale_price and discount *)
PricesStart ==
    /\ price_pc = "reconcile"
    /\ list_price \in PriceTexts
    /\ sale_price \in PriceTexts
    /\ discount \in DiscountTexts
    /\ price_given = <<list_price, sale_price>>
    /\ price_derived = <<None, None>>

InitPrices ==
    /\ CrawlIdle /\ LinksOff /\ PdpOff /\ CsvOff /\ HashOff /\ UpsertOff /\ SwatchOff /\ StockOff
    /\ PricesStart

NextPrices == ComputeMissing \/ NormalizeOrder

SpecPrices == InitPrices /\ [][NextPrices]_vars

----------------------------------------------------------------------------
(* The color loop of scraper.py parse_pdp: sizes, image, inventory and name of
   each color, and the row built from them *)

MaxColors == 2         \* color options of a page
MaxSizes == 2          \* size options one source lists for a color

(* label texts of size options: "S", "29-R", "29 R" and a missing label *)
SizeTexts == {<<"S">>, <<"2", "9", "-", "R">>, <<"2", "9", " ", "R">>, <<>>}

(* what the page shows for the sizes of one color: lists of <<label text,
   enabled>> in the DOM, and of <<label text, inventory>> in __NEXT_DATA__ *)
DomSizeLists == UNION {[1..n -> SizeTexts \X BOOLEAN] : n \in 0..MaxSizes}
NextSizeLists == UNION {[1..n -> SizeTexts \X {0, 2}] : n \in 0..MaxSizes}

(* JSON-LD "name": absent, a string, or a JSON object *)
JsonObject == <<"@value", "Jacket">>
JsonNames == {None, Some("Jacket"), JsonObject}

(* s without the characters in cs: re.sub(r"\s+", "", s), s.replace("-", "") *)
RemoveChars(s, cs) == SelectSeq(s, LAMBDA c : c \notin cs)

RECURSIVE UniqueKeepAll(_, _)
(* faulty variant of Unique: the "s not in unique" test is lost *)
UniqueKeepAll(entries, seen) ==
    IF entries = <<>> THEN <<>>
    ELSE (IF Head(entries)[1] # <<>> THEN <<Head(entries)>> ELSE <<>>)
           \o UniqueKeepAll(Tail(entries), seen)

RECURSIVE Unique(_, _)
(* the dedup at the end of extract_sizes: the first entry of a label wins, an
   empty label is dropped *)
Unique(entries, seen) ==
    IF entries = <<>> THEN <<>>
    ELSE IF Head(entries)[1] # <<>> /\ Head(entries)[1] \notin seen
    THEN <<Head(entries)>> \o Unique(Tail(entries), seen \cup {Head(entries)[1]})
    ELSE Unique(Tail(entries), seen)

(* extract_sizes: label without whitespace and hyphens, in stock unless
   disabled, then the dedup *)
extract_sizes(dom) ==
    Unique([j \in DOMAIN dom |-> <<RemoveChars(dom[j][1], {" ", "-"}), dom[j][2]>>], {})

(* sort_key of _parse_arc_sizes_from_next_data: (major * 10 + minor, s) for a
   label that starts with digits, (10**9, s) otherwise *)
SortKey(s) ==
    LET p == FirstIndex(s, {c \in {s[j] : j \in DOMAIN s} : ~IsDigit(c)})
        q == IF p <= Len(s) /\ s[p] \in {".", "x", "X"} THEN p + 1 ELSE p
    IN  IF p = 1 THEN 10^9
        ELSE 10 * IntOf(SubSeq(s, 1, p - 1))
               + (IF q > p /\ q <= Len(s) /\ IsDigit(s[q]) THEN DigitValue(s[q]) ELSE 0)

RECURSIVE SortSizes(_)
(* sorted(size_qty.keys(), key=sort_key) *)
SortSizes(S) ==
    IF S = {} THEN <<>>
    ELSE LET m == CHOOSE x \in S : \A y \in S \ {x} :
                     \/ SortKey(x) < SortKey(y)
                     \/ (SortKey(x) = SortKey(y) /\ LexLess(x, y))
         IN  <<m>> \o SortSizes(S \ {m})

(* _parse_arc_sizes_from_next_data: size_qty[label] = inventory for the variants
   of the color (a later variant of the same label overwrites), labels without
   whitespace, ordered by sort_key; in stock when the quantity is positive *)
parse_arc_sizes_from_next_data(color_variants) ==
    LET lab(j) == RemoveChars(color_variants[j][1], {" "})
        used == {j \in DOMAIN color_variants : lab(j) # <<>>}
        size_qty == [l \in {lab(j) : j \in used} |->
                        color_variants[CHOOSE j \in used :
                                    lab(j) = l /\ \A m \in used : lab(m) = l => m <= j][2]]
        ordered == SortSizes(DOMAIN size_qty)
    IN  [j \in DOMAIN ordered |-> <<ordered[j], size_qty[ordered[j]] > 0>>]

RECURSIVE Join(_)
(* ",".join(labels) *)
Join(labels) ==
    IF labels = <<>> THEN <<>>
    ELSE IF Len(labels) = 1 THEN Head(labels)
    ELSE Head(labels) \o <<",">> \o Join(Tail(labels))

(* the labels of the entries of ss, in order, an empty label left out *)
LabelsOf(ss) ==
    LET kept == SelectSeq(ss, LAMBDA e : e[1] # <<>>)
    IN  [j \in DOMAIN kept |-> kept[j][1]]

(* the AggregatedRow of the color with index n: the three size columns and
   num_sizes_in_stock from sizes, the other fields as resolved *)
BuildAggregatedRow(n, ss, f) ==
    [idx |-> n,
     name |-> f.name,
     image_url |-> f.image_url,
     inventory_amount |-> f.inventory_amount,
     sizes_all |-> Join(LabelsOf(ss)),
     sizes_in_stock |-> Join(LabelsOf(SelectSeq(ss, LAMBDA e : e[2]))),
     sizes_out_of_stock |-> Join(LabelsOf(SelectSeq(ss, LAMBDA e : ~e[2]))),
     num_sizes_in_stock |-> Len(LabelsOf(SelectSeq(ss, LAMBDA e : e[2])))]

(* pydantic accepts the value for a field of type Optional[str] *)
IsOptionalStr(v) == v = None \/ Len(v) = 1

NoFields == [name |-> None, image_url |-> None, inventory_amount |-> None]

(* head of "for idx, sel in enumerate(color_selectors)" *)
PdpLoopHead ==
    /\ pdp_pc = "color"
    /\ pdp_pc' = IF color_idx < n_colors THEN "sizes" ELSE "returned"
    /\ UNCHANGED <<outside_pdp, color_idx, n_colors, base_name, sizes, sizes_from,
                   sizes_dropped, fields, outcomes, pdp_rows>>

(* sizes of the color: sizes_from_next or await extract_sizes(page), and, when
   both are empty, the second extract_sizes after the prices *)
ReadSizes ==
    /\ pdp_pc = "sizes"
    /\ \E nxt \in NextSizeLists :
          LET sizes_from_next == parse_arc_sizes_from_next_data(nxt)
          IN  IF sizes_from_next # <<>>
              THEN /\ sizes' = sizes_from_next
                   /\ sizes_from' = "next"
                   /\ sizes_dropped' =
                         Cardinality({j \in DOMAIN nxt : nxt[j][1] # <<>>}) - Len(sizes_from_next)
              ELSE \E dom \in DomSizeLists :
                      /\ sizes' = extract_sizes(dom)
                      /\ sizes_from' = "dom"
                      /\ sizes_dropped' =
                            Cardinality({j \in DOMAIN dom : dom[j][1] # <<>>})
                              - Len(extract_sizes(dom))
    /\ pdp_pc' = "fields"
    /\ UNCHANGED <<outside_pdp, color_idx, n_colors, base_name, fields, outcomes,
                   pdp_rows>>

(* image, inventory and name of the color: an exception in read_image_url or in
   the inventory block leaves the field None; name is the JSON-LD name, or the
   h1 text when that is falsy *)
ResolveFields ==
    /\ pdp_pc = "fields"
    /\ \E o \in [image : {"raised", "found"}, inventory : {"raised", "found"},
                 h1 : {"raised", "found"}] :
          /\ fields' = [name |-> IF base_name # None THEN base_name
                                 ELSE IF o.h1 = "found" THEN Some("Title") ELSE None,
                        image_url |-> IF o.image = "found" THEN Some("img") ELSE None,
                        inventory_amount |-> IF o.inventory = "found" THEN Some(3) ELSE None]
          /\ outcomes' = Append(outcomes, o)
    /\ pdp_pc' = "build"
    /\ UNCHANGED <<outside_pdp, color_idx, n_colors, base_name, sizes, sizes_from,
                   sizes_dropped, pdp_rows>>

(* row = AggregatedRow(...); rows.append(row) *)
BuildRow ==
    /\ pdp_pc = "build"
    /\ IsOptionalStr(fields.name)
    /\ pdp_rows' = Append(pdp_rows, BuildAggregatedRow(color_idx, sizes, fields))
    /\ color_idx' = color_idx + 1
    /\ sizes' = <<>>
    /\ fields' = NoFields
    /\ pdp_pc' = "color"
    /\ UNCHANGED <<outside_pdp, n_colors, base_name, sizes_from, sizes_dropped, outcomes>>

(* AggregatedRow(...) raises ValidationError (name is not a string): the
   handler of the color's try block logs and continues with the next color *)
BuildRowFail ==
    /\ pdp_pc = "build"
    /\ ~IsOptionalStr(fields.name)
    /\ color_idx' = color_idx + 1
    /\ sizes' = <<>>
    /\ fields' = NoFields
    /\ pdp_pc' = "color"
    /\ UNCHANGED <<outside_pdp, n_colors, base_name, sizes_from, sizes_dropped, outcomes,
                   pdp_rows>>

(* parse_pdp is called: JSON-LD read, color options found *)
PdpStart ==
    /\ pdp_pc = "color"
    /\ color_idx = 0
    /\ n_colors \in 1..MaxColors
    /\ base_name \in JsonNames
    /\ sizes = <<>>
    /\ sizes_from = "none"
    /\ sizes_dropped = 0
    /\ fields = NoFields
    /\ outcomes = <<>>
    /\ pdp_rows = <<>>

InitPdp ==
    /\ CrawlIdle /\ LinksOff /\ PricesOff /\ CsvOff /\ HashOff /\ UpsertOff /\ SwatchOff /\ StockOff
    /\ PdpStart

NextPdp ==
    \/ PdpLoopHead
    \/ ReadSizes
    \/ ResolveFields
    \/ BuildRow
    \/ BuildRowFail

SpecPdp == InitPdp /\ [][NextPdp]_vars

----------------------------------------------------------------------------
(* The flat log on disk: scraper.py rotate_if_incompatible, ensure_csv and
   append_rows. A file is its lines, a line its cells, a cell its text as a
   sequence of column names, spaces and line ends. *)

MaxAppends == 2        \* append_rows calls of a run
MaxCsvRuns == 2        \* runs over the same flat log

expected_header ==
    <<"crawl_ts", "locale", "category_path", "name", "sku", "product_url", "color",
      "list_price", "sale_price", "discount", "image_url", "inventory_amount",
      "size_quantities", "sizes_all", "sizes_in_stock", "sizes_out_of_stock",
      "num_sizes_in_stock", "hash_key", "source">>

(* writer.writerow(cells): the cells, the last one followed by the line end *)
WriteRow(cells) ==
    [j \in DOMAIN cells |->
        IF j = Len(cells) THEN <<cells[j], "\r\n">> ELSE <<cells[j]>>]

NoFile == [exists |-> FALSE, lines |-> <<>>]

(* flat logs found before a run: none, one of this program, one with spaces
   after the commas of the header, one of a version without the last column, one
   with two columns the other way round, and an empty file; each but the last
   with a data line *)
ExistingLogs ==
    LET log(header) == [exists |-> TRUE,
                        lines |-> <<header, WriteRow([j \in 1..Len(header) |-> "v"])>>]
    IN  {NoFile,
         log(WriteRow(expected_header)),
         log([j \in 1..19 |-> IF j = 1 THEN <<expected_header[j]>>
                              ELSE <<" ", expected_header[j]>>]),
         log(WriteRow(SubSeq(expected_header, 1, 18))),
         log(WriteRow(<<expected_header[2], expected_header[1]>>
                         \o SubSeq(expected_header, 3, 19))),
         [exists |-> TRUE, lines |-> <<>>]}

(* s.strip() of a one-cell text *)
Strip(s) ==
    LET ink == {j \in DOMAIN s : s[j] \notin {" ", "\r\n"}}
    IN  IF ink = {} THEN <<>>
        ELSE SubSeq(s, CHOOSE j \in ink : \A m \in ink : j <= m,
                       CHOOSE j \in ink : \A m \in ink : m <= j)

(* current = [h.strip() for h in first_line.split(",")] with first_line the
   stripped first line of the file, "" for an empty file *)
CurrentHeader(f) ==
    IF f.lines = <<>> THEN <<<<>>>>
    ELSE [j \in DOMAIN f.lines[1] |-> Strip(f.lines[1][j])]

(* rotate_if_incompatible: <<file at csv_path, backups>> afterwards. The file is
   renamed when the header cannot be read or is not the expected one; a rename
   that raises is tried once more in the handler, whose own handler passes. *)
rotate_if_incompatible(f, baks, read_raises, no_rename) ==
    IF ~f.exists THEN <<f, baks>>
    ELSE IF ~read_raises /\ CurrentHeader(f) = [j \in 1..19 |-> <<expected_header[j]>>]
    THEN <<f, baks>>
    ELSE IF no_rename THEN <<f, baks>>
    ELSE <<NoFile, Append(baks, f)>>

(* ensure_csv: rotate_if_incompatible, then the header is written if there is no
   file at csv_path *)
EnsureLog ==
    /\ csv_pc = "ensure"
    /\ \E read_raises \in BOOLEAN :
          LET rotated == rotate_if_incompatible(log_file, backups, read_raises, rename_raises)
          IN  /\ log_file' = IF rotated[1].exists THEN rotated[1]
                             ELSE [exists |-> TRUE, lines |-> <<WriteRow(expected_header)>>]
              /\ backups' = rotated[2]
              /\ log_read' = ~read_raises
    /\ log_before' = log_file
    /\ appends' = 0
    /\ csv_pc' = "append"
    /\ UNCHANGED <<outside_csv, rename_raises, csv_runs>>

(* append_rows: open(csv_path, "a") and one line per row *)
AppendToLog ==
    /\ csv_pc = "append"
    /\ appends < MaxAppends
    /\ log_file' = [exists |-> TRUE,
                    lines |-> Append(log_file.lines, WriteRow([j \in 1..19 |-> "v"]))]
    /\ appends' = appends + 1
    /\ UNCHANGED <<outside_csv, csv_pc, backups, rename_raises, log_read, log_before,
                   csv_runs>>

(* the run ends and the program is started again on the same csv_path *)
NextCsvRun ==
    /\ csv_pc = "append"
    /\ csv_runs < MaxCsvRuns
    /\ csv_runs' = csv_runs + 1
    /\ rename_raises' \in BOOLEAN
    /\ csv_pc' = "ensure"
    /\ UNCHANGED <<outside_csv, log_file, backups, log_read, log_before, appends>>

(* crawl_category is about to call ensure_csv *)
CsvStart ==
    /\ csv_pc = "ensure"
    /\ log_file \in ExistingLogs
    /\ backups = <<>>
    /\ rename_raises \in BOOLEAN
    /\ log_read = FALSE
    /\ log_before = NoFile
    /\ appends = 0
    /\ csv_runs = 1

InitCsv ==
    /\ CrawlIdle /\ LinksOff /\ PricesOff /\ PdpOff /\ HashOff /\ UpsertOff /\ SwatchOff /\ StockOff
    /\ CsvStart

NextCsv ==
    \/ EnsureLog
    \/ AppendToLog
    \/ NextCsvRun

SpecCsv == InitCsv /\ [][NextCsv]_vars

----------------------------------------------------------------------------
(* compute_color_hash_key as a function of its two arguments *)

(* (product_url, color) arguments: a product link and the same link followed by
   "|Black"; no color, the empty label, and labels with and without a "|" *)
HashPairs ==
    {"https://o/shop/a", "https://o/shop/a|Black"}
        \X {None, Some(""), Some("Trim"), Some("Black|Trim")}

(* the keys of the two pairs are computed *)
ComputeHashKeys ==
    /\ hash_pc = "pairs"
    /\ hash_keys' = [n \in 1..2 |->
                        compute_color_hash_key(hash_pairs[n][1], hash_pairs[n][2])]
    /\ hash_pc' = "hashed"
    /\ UNCHANGED <<outside_hash, hash_pairs>>

HashStart ==
    /\ hash_pc = "pairs"
    /\ hash_pairs \in HashPairs \X HashPairs
    /\ hash_keys = <<>>

InitHash ==
    /\ CrawlIdle /\ LinksOff /\ PricesOff /\ PdpOff /\ CsvOff /\ UpsertOff /\ SwatchOff /\ StockOff
    /\ HashStart

SpecHash == InitHash /\ [][ComputeHashKeys]_vars

----------------------------------------------------------------------------
(* AlertDB.upsert_variant called with any arguments *)

MaxUpserts == 3        \* upsert_variant calls

(* one upsert_variant call; crawl_ts is the time of the call *)
UpsertAny ==
    /\ up_pc = "store"
    /\ Len(up_calls) < MaxUpserts
    /\ \E h \in {"k1", "k2"}, u \in {"https://o/shop/a", "https://o/shop/b"},
          c \in {None, Some("Black"), Some("Blue")}, nm \in {None, Some("Jacket")} :
          /\ up_variants' = upsert_variant(up_variants, h, u, c, nm, None,
                                           Len(up_calls) + 1, 0)
          /\ up_calls' = Append(up_calls, [hash_key |-> h, product_url |-> u, color |-> c,
                                           crawl_ts |-> Len(up_calls) + 1])
    /\ UNCHANGED <<outside_upsert, up_pc>>

UpsertStart ==
    /\ up_pc = "store"
    /\ up_variants = EmptyTable
    /\ up_calls = <<>>

InitUpsert ==
    /\ CrawlIdle /\ LinksOff /\ PricesOff /\ PdpOff /\ CsvOff /\ HashOff /\ SwatchOff /\ StockOff
    /\ UpsertStart

SpecUpsert == InitUpsert /\ [][UpsertAny]_vars

----------------------------------------------------------------------------
(* The color options of parse_pdp: the swatches found on the page, the
   max_colors cap, the discounted color first, and the color name of each
   iteration *)

MaxSwatches == 3       \* swatches find_color_swatch_locators returns

L_red == <<"R", "e", "d">>
L_rose == <<"R", "o", "s", "e">>
L_dust_rose == <<"D", "u", "s", "t", " ", "R", "o", "s", "e">>

(* aria-label of the swatches in page order: <<>> for a swatch without one *)
SwatchLists == UNION {[1..n -> {<<>>, L_red, L_rose, L_dust_rose}] : n \in 0..MaxSwatches}

(* s.lower() *)
Lower(s) ==
    LET up == <<"A", "B", "C", "D", "R", "S">>
        lo == <<"a", "b", "c", "d", "r", "s">>
    IN  [j \in DOMAIN s |->
            IF \E n \in 1..6 : up[n] = s[j]
            THEN lo[CHOOSE n \in 1..6 : up[n] = s[j]] ELSE s[j]]

BODY_NO_COLOR == 0

(* color_selectors as the loop sees them; a swatch is named by its position on
   the page. The sentinel for no swatch, then the cap, then the swatches whose
   lower-cased aria-label contains the lower-cased discounted name in front. *)
ColorSelectors(labels, cap, discounted) ==
    LET found == IF labels = <<>> THEN <<BODY_NO_COLOR>> ELSE [j \in DOMAIN labels |-> j]
        capped == IF cap > 0 /\ cap < Len(found) THEN SubSeq(found, 1, cap) ELSE found
        hit(sel) == Contains(Lower(labels[sel]), Lower(discounted))
        prioritized == SelectSeq(capped, LAMBDA sel : hit(sel))
        others == SelectSeq(capped, LAMBDA sel : ~hit(sel))
    IN  IF discounted # <<>> /\ capped[1] # BODY_NO_COLOR /\ prioritized # <<>>
        THEN prioritized \o others
        ELSE capped

(* faulty variant of PositionalLabel: the position is left out *)
PositionalLabelFixed(n) == <<"c", "o", "l", "o", "r", "_", "1">>

(* f"color_{idx+1}" *)
PositionalLabel(n) == <<"c", "o", "l", "o", "r", "_">> \o IntText(n + 1)

(* find_color_swatch_locators, the sentinel, the cap and the reordering *)
OrderColors ==
    /\ sw_pc = "find"
    /\ color_selectors' = ColorSelectors(swatch_labels, max_colors, discounted_name)
    /\ sw_pc' = "loop"
    /\ UNCHANGED <<outside_swatch, swatch_labels, max_colors, discounted_name, sw_idx,
                   sw_rows>>

(* one iteration of the color loop, as far as the color name goes: the
   aria-label of the swatch, else that of a nested element, else the
   selected-color indicator, none of them looked at for the sentinel; else the
   positional label *)
NameColor ==
    /\ sw_pc = "loop"
    /\ sw_idx < Len(color_selectors)
    /\ \E nested \in {<<>>, L_red}, indicator \in {<<>>, L_rose}, raised \in BOOLEAN :
          LET sel == color_selectors[sw_idx + 1]
              own == IF raised THEN <<>> ELSE swatch_labels[sel]
              read == IF sel = BODY_NO_COLOR THEN <<>>
                      ELSE IF own # <<>> THEN own
                      ELSE IF nested # <<>> THEN nested
                      ELSE indicator
          IN  sw_rows' = Append(sw_rows,
                                [idx |-> sw_idx, resolved |-> read # <<>>,
                                 color |-> IF read # <<>> THEN read
                                           ELSE PositionalLabel(sw_idx)])
    /\ sw_idx' = sw_idx + 1
    /\ UNCHANGED <<outside_swatch, sw_pc, swatch_labels, max_colors, discounted_name,
                   color_selectors>>

(* the loop is over: return rows *)
ReturnColors ==
    /\ sw_pc = "loop"
    /\ sw_idx = Len(color_selectors)
    /\ sw_pc' = "returned"
    /\ UNCHANGED <<outside_swatch, swatch_labels, max_colors, discounted_name,
                   color_selectors, sw_idx, sw_rows>>

SwatchStart ==
    /\ sw_pc = "find"
    /\ swatch_labels \in SwatchLists
    /\ max_colors \in 0..2
    /\ discounted_name \in {<<>>, L_rose}
    /\ color_selectors = <<>>
    /\ sw_idx = 0
    /\ sw_rows = <<>>

InitSwatch ==
    /\ CrawlIdle /\ LinksOff /\ PricesOff /\ PdpOff /\ CsvOff /\ HashOff /\ UpsertOff /\ StockOff
    /\ SwatchStart

NextSwatch ==
    \/ OrderColors
    \/ NameColor
    \/ ReturnColors

SpecSwatch == InitSwatch /\ [][NextSwatch]_vars

----------------------------------------------------------------------------
(* The sizes and the inventory of parse_pdp: what an iteration of the color
   loop reads from __NEXT_DATA__ and from the DOM, and at which point *)

MaxVariants == 2       \* entries of product.variants in __NEXT_DATA__
MaxItems == 1          \* other objects of __NEXT_DATA__ with a size and a quantity

(* colourOptions.options: the labels of the colours with value 1 and 2, which
   are the swatches of the page in page order *)
ColourOptions == <<L_red, L_rose>>

StockSizes == {<<"S">>, <<"M">>}
Inventories == {0, 3, 1500, 2500}

(* an entry of product.variants; its sizeId is named by the label sizeOptions
   gives it *)
ArcVariants == [colourId : DOMAIN ColourOptions, size : StockSizes, inventory : Inventories]

(* an object elsewhere in __NEXT_DATA__ with a "size", a "quantity" and, unless
   colour is <<>>, a "colour" *)
Items == [size : {<<"S">>}, colour : {<<>>, L_rose}, quantity : {3, 600}]

(* __NEXT_DATA__: colourOptions.selected, product.variants and the other
   objects *)
EmbeddedStates ==
    [selected : {None} \cup {Some(c) : c \in DOMAIN ColourOptions},
     variants : UNION {[1..n -> ArcVariants] : n \in 0..MaxVariants},
     items : UNION {[1..n -> Items] : n \in 0..MaxItems}]

(* what the DOM lists as sizes at one read *)
StockDoms == {<<>>, <<<<<<"S">>, TRUE>>>>}

RECURSIVE SumSeq(_)
SumSeq(s) == IF s = <<>> THEN 0 ELSE Head(s) + SumSeq(Tail(s))

RECURSIVE MaxSeq(_)
MaxSeq(s) ==
    IF Len(s) = 1 THEN Head(s)
    ELSE LET m == MaxSeq(Tail(s)) IN IF Head(s) > m THEN Head(s) ELSE m

RECURSIVE SumMap(_)
(* sum(size_qty_map.values()) *)
SumMap(m) ==
    IF DOMAIN m = {} THEN 0
    ELSE LET l == CHOOSE x \in DOMAIN m : TRUE
         IN  m[l] + SumMap([x \in DOMAIN m \ {l} |-> m[x]])

(* a dict filled by d[label] = qty over entries <<label, qty>> in order: the
   last entry of a label stays *)
SizeQty(entries) ==
    [l \in {entries[j][1] : j \in DOMAIN entries} |->
        entries[CHOOSE j \in DOMAIN entries :
                   entries[j][1] = l /\ \A m \in DOMAIN entries : entries[m][1] = l => m <= j][2]]

(* selected_colour_id of _parse_arc_sizes_from_next_data: colourOptions.selected,
   and only without it the first option whose label contains the color name *)
selected_colour_id(nd, cname) ==
    LET hits == {c \in DOMAIN ColourOptions :
                    cname # <<>> /\ Contains(Lower(ColourOptions[c]), Lower(cname))}
    IN  IF IsSome(nd.selected) THEN nd.selected
        ELSE IF hits = {} THEN None
        ELSE Some(CHOOSE c \in hits : \A d \in hits : c <= d)

(* the variants _parse_arc_sizes_from_next_data goes through, as <<size label,
   inventory>>: those whose colourId is selected_colour_id *)
ColourVariants(nd, cname) ==
    LET sel == selected_colour_id(nd, cname)
        kept == SelectSeq(nd.variants, LAMBDA v : IsSome(sel) /\ v.colourId = Val(sel))
    IN  [j \in DOMAIN kept |-> <<kept[j].size, kept[j].inventory>>]

(* _walk_collect_inventory_amounts: every value under a quantity key that is in
   0..2000, of whatever object; the hints change nothing *)
walk_collect_inventory_amounts(nd) ==
    SelectSeq([j \in DOMAIN nd.variants |-> nd.variants[j].inventory]
                \o [j \in DOMAIN nd.items |-> nd.items[j].quantity],
              LAMBDA v : v \in 0..2000)

(* _walk_collect_size_quantities: size -> quantity of the objects with a size
   label and a quantity in 0..500, but for those that declare another colour
   than the hint *)
walk_collect_size_quantities(nd, hint) ==
    LET kept == SelectSeq(nd.items,
                          LAMBDA it : /\ (hint # <<>> /\ it.colour # <<>>) =>
                                            Contains(Lower(it.colour), Lower(hint))
                                      /\ it.quantity \in 0..500)
    IN  SizeQty([j \in DOMAIN kept |-> <<kept[j].size, kept[j].quantity>>])

(* inventory_amount: the sum of the matched values, their maximum when the sum
   is above 2000; the sum of the map only when that gave nothing or 0 *)
InventoryAmount(inv_values, qty_map) ==
    LET total == SumSeq(inv_values)
        amount == IF inv_values = <<>> THEN None
                  ELSE IF total <= 2000 THEN Some(total) ELSE Some(MaxSeq(inv_values))
    IN  IF DOMAIN qty_map # {} /\ (amount = None \/ amount = Some(0))
        THEN Some(SumMap(qty_map))
        ELSE amount

(* next_data = await parse_next_data(page), once, before the color loop *)
ParseNextData ==
    /\ st_pc = "entry"
    /\ next_data' = [data |-> page_nd, phase |-> page_phase]
    /\ st_pc' = "color"
    /\ UNCHANGED <<outside_stock, page_nd, page_phase, st_idx, color_name, size_qty_map,
                   sizes_before, st_rows>>

(* the click on the swatch of the iteration and the reads of color_name *)
ClickColor ==
    /\ st_pc = "color"
    /\ st_idx < Len(ColourOptions)
    /\ page_phase' = "color"
    /\ \E named \in BOOLEAN :
          color_name' = IF named THEN ColourOptions[st_idx + 1] ELSE <<>>
    /\ st_pc' = "sizes"
    /\ UNCHANGED <<outside_stock, page_nd, next_data, st_idx, size_qty_map, sizes_before,
                   st_rows>>

(* sizes_from_next, size_qty_map = _parse_arc_sizes_from_next_data(next_data,
   color_name); sizes_before_selection = sizes_from_next or extract_sizes(page) *)
ReadSizesBefore ==
    /\ st_pc = "sizes"
    /\ \E dom \in StockDoms :
          LET cv == ColourVariants(next_data.data, color_name)
              sizes_from_next == parse_arc_sizes_from_next_data(cv)
          IN  /\ size_qty_map' = SizeQty(cv)
              /\ sizes_before' =
                    IF sizes_from_next # <<>>
                    THEN [list |-> sizes_from_next, from |-> "next", phase |-> next_data.phase]
                    ELSE [list |-> extract_sizes(dom), from |-> "dom", phase |-> page_phase]
    /\ st_pc' = "select"
    /\ UNCHANGED <<outside_stock, page_nd, page_phase, next_data, st_idx, color_name,
                   st_rows>>

(* select_first_in_stock_size: clicks the first size its own extract_sizes finds
   in stock, if any *)
SelectSize ==
    /\ st_pc = "select"
    /\ \E dom \in StockDoms :
          page_phase' = IF \E j \in DOMAIN extract_sizes(dom) : extract_sizes(dom)[j][2]
                        THEN "size" ELSE page_phase
    /\ st_pc' = "inventory"
    /\ UNCHANGED <<outside_stock, page_nd, next_data, st_idx, color_name, size_qty_map,
                   sizes_before, st_rows>>

(* sizes = sizes_before_selection or extract_sizes(page); nd_inv = await
   parse_next_data(page), inv_values, size_qty_map, inventory_amount; the row *)
ReadInventory ==
    /\ st_pc = "inventory"
    /\ \E dom \in StockDoms :
          LET szs == IF sizes_before.list # <<>> THEN sizes_before
                     ELSE [list |-> extract_sizes(dom), from |-> "dom", phase |-> page_phase]
              nd_inv == [data |-> page_nd, phase |-> page_phase]
              inv_values == walk_collect_inventory_amounts(nd_inv.data)
              arc == DOMAIN size_qty_map # {}
              qty == IF arc THEN size_qty_map
                     ELSE walk_collect_size_quantities(nd_inv.data, color_name)
          IN  st_rows' = Append(st_rows,
                  [idx |-> st_idx,
                   sizes |-> szs.list,
                   sizes_from |-> szs.from,
                   sizes_phase |-> szs.phase,
                   size_quantities |-> qty,
                   qty_phase |-> IF arc THEN next_data.phase ELSE nd_inv.phase,
                   inv_values |-> inv_values,
                   inventory_amount |-> InventoryAmount(inv_values, qty),
                   inv_phase |-> nd_inv.phase])
    /\ st_idx' = st_idx + 1
    /\ st_pc' = "color"
    /\ UNCHANGED <<outside_stock, page_nd, page_phase, next_data, color_name, size_qty_map,
                   sizes_before>>

(* the loop is over: return rows *)
ReturnStock ==
    /\ st_pc = "color"
    /\ st_idx = Len(ColourOptions)
    /\ st_pc' = "returned"
    /\ UNCHANGED <<outside_stock, page_nd, page_phase, next_data, st_idx, color_name,
                   size_qty_map, sizes_before, st_rows>>

StockStart ==
    /\ st_pc = "entry"
    /\ page_nd \in EmbeddedStates
    /\ page_phase = "none"
    /\ next_data = <<>>
    /\ st_idx = 0
    /\ color_name = <<>>
    /\ size_qty_map = <<>>
    /\ sizes_before = <<>>
    /\ st_rows = <<>>

InitStock ==
    /\ CrawlIdle /\ LinksOff /\ PricesOff /\ PdpOff /\ CsvOff /\ HashOff /\ UpsertOff /\ SwatchOff
    /\ StockStart

NextStock ==
    \/ ParseNextData
    \/ ClickColor
    \/ ReadSizesBefore
    \/ SelectSize
    \/ ReadInventory
    \/ ReturnStock

SpecStock == InitStock /\ [][NextStock]_vars

----------------------------------------------------------------------------
(* Properties of the orchestrator and of the store *)

(* the (url, color) pairs the current run wrote to one sink *)
Pairs(sink) == {<<written[n][2], written[n][3]>> : n \in {m \in DOMAIN written : written[m][1] = sink}}
PairKey(p) == p[1] \o "|" \o p[2]
PersistStates == {"append", "upsert", "insert"}
SinkFaults == {"append_rows", "upsert_variant", "insert_observation"}
FatalFaults == {"launch", "goto", "discover"}

(* C1: within one run, every (product URL, color) pair is written at most once
   to each sink: at most one flat-log line, one variant upsert and one
   observation, however often parse_pdp returns the pair. *)
C1_DedupAtMostOnce ==
    \A a, b \in DOMAIN written : written[a] = written[b] => a = b

(* a page returned the same pair twice, one row was dropped and the other one
   was written to both sinks *)
C1_Witness ==
    /\ pc = "pause"
    /\ Len(rows) = 2
    /\ DedupKey(rows[1]) = DedupKey(rows[2])
    /\ Len(new_rows) = 1
    /\ <<rows[1].product_url, OrEmpty(rows[1].color)>> \in Pairs("csv") \cap Pairs("obs")

(* C2: once the persistence step of a page is over, however it ended short of an
   interrupt, every pair of the run is in the flat log exactly if it is in the
   store (upserted and observed): no row is left in one sink only. *)
C2_SinksAgree ==
    (pc \notin PersistStates /\ fault # "interrupt") =>
        (Pairs("csv") = Pairs("obs") /\ Pairs("csv") = Pairs("upsert"))

(* C3: a failed flat-log or store write never ends the run. *)
C3_SinkFailureDoesNotEndRun ==
    ~(pc = "crashed" /\ fault \in SinkFaults)

(* C4: per link at most 3 navigation attempts, none after the first success;
   after the third failure the link is skipped with nothing parsed or written,
   the run goes on with the next index, and no link is navigated twice. *)
C4_NavigationRetry ==
    [][ /\ (pc = "nav" => attempt \in 0..2 /\ ~nav_ok)
        /\ (pc = "nav" /\ pc' = "nav" =>
               attempt' = attempt + 1 /\ attempt' <= 2 /\ i' = i
               /\ UNCHANGED <<sink_vars, seen_color_keys, written>>)
        /\ (pc = "nav" /\ pc' = "parse" => i' = i /\ nav_ok')
        /\ (pc = "nav" /\ pc' = "loop" =>
               attempt = 2 /\ i' = i + 1 /\ rows' = <<>>
               /\ UNCHANGED <<sink_vars, seen_color_keys, written>>)
        /\ (pc = "nav" =>
               pc' \in {"nav", "parse", "loop"} \/ (pc' = "crashed" /\ fault' = "interrupt"))
        /\ (pc # "nav" /\ pc' = "nav" =>
               pc = "loop" /\ i' = i /\ attempt' = 0 /\ i \notin visited)
      ]_vars

(* the first link was given up after failed navigation and a next link is there *)
C4_Witness ==
    /\ pc = "loop"
    /\ last_event = "Navigation failed"
    /\ i = 1
    /\ Len(product_links) = 2
    /\ BelowLimit(i, limit)

(* C5: when parse_pdp raises or times out, nothing is written to either sink,
   no key enters the dedup set, no row of the page is kept, and the loop goes
   on with the next index. *)
C5_ParseFailureSkipsPage ==
    [][ (pc = "parse" /\ last_event' = "PDP parse failed") =>
            /\ UNCHANGED <<sink_vars, seen_color_keys, written>>
            /\ rows' = <<>> /\ new_rows' = <<>>
            /\ pc' = "loop"
            /\ i' = i + 1
      ]_vars

(* the parse of the first page failed and the second link is up next *)
C5_Witness ==
    /\ pc = "loop"
    /\ last_event = "PDP parse failed"
    /\ i = 1
    /\ Len(product_links) = 2
    /\ BelowLimit(i, limit)

(* C6: while the run is under way, (a) every written row belongs to a page whose
   parse has returned and (c) its key is in the dedup set; (b) whenever the
   orchestrator is outside the persistence step of a page (before navigating
   the next link, or at the end), every kept pair has its flat-log line, its
   upsert and its observation. *)
C6_PersistPerPage ==
    pc \in Running =>
        /\ \A n \in DOMAIN written :
              /\ \E j \in 0..(Len(product_links) - 1) :
                    /\ product_links[j + 1] = written[n][2]
                    /\ (j < i \/ (j = i /\ pc \in PersistStates \cup {"pause"}))
              /\ PairKey(<<written[n][2], written[n][3]>>) \in seen_color_keys
        /\ (pc \notin PersistStates \cup {"dedupe"} =>
              /\ {PairKey(p) : p \in Pairs("csv")} = seen_color_keys
              /\ Pairs("upsert") = Pairs("csv")
              /\ Pairs("obs") = Pairs("csv"))

(* the second link is being navigated while the rows of the first page are in
   both sinks *)
C6_Witness ==
    /\ pc = "nav"
    /\ i = 1
    /\ Pairs("csv") # {}
    /\ Pairs("obs") = Pairs("csv")

(* C7: ever_in_stock of a variant is 1 exactly if some upsert_variant call for
   its hash_key, in this run or an earlier one, had num_in_stock > 0. *)
C7_EverInStock ==
    /\ in_stock_calls \subseteq DOMAIN variants
    /\ \A h \in DOMAIN variants : (variants[h].ever_in_stock = 1) <=> (h \in in_stock_calls)

(* a variant seen in stock by one observation and out of stock by a later one
   still has the flag *)
C7_Witness ==
    \E a, b \in DOMAIN observations :
        /\ a < b
        /\ observations[a].hash_key = observations[b].hash_key
        /\ observations[a].num_sizes_in_stock > 0
        /\ observations[b].num_sizes_in_stock = 0
        /\ observations[b].hash_key \in DOMAIN variants
        /\ variants[observations[b].hash_key].last_seen_at = observations[b].crawl_ts
        /\ variants[observations[b].hash_key].ever_in_stock = 1

(* C8 as stated: an upsert for an existing hash_key leaves a stored non-null
   name and a stored non-null image_url as they are. *)
C8_FirstValueWins ==
    [][ (pc = "upsert" /\ pc' = "insert") =>
            LET h == new_rows[k].hash_key
            IN  h \in DOMAIN variants =>
                  /\ (IsSome(variants[h].name) => variants'[h].name = variants[h].name)
                  /\ (IsSome(variants[h].image_url) =>
                          variants'[h].image_url = variants[h].image_url)
      ]_vars

(* C8 amended: an upsert for an existing hash_key sets name (image_url) to the
   new value when the new value is non-null and keeps the stored one only when
   the new value is null. *)
C8_LatestNonNullWins ==
    [][ (pc = "upsert" /\ pc' = "insert") =>
            LET r == new_rows[k]
                h == r.hash_key
            IN  h \in DOMAIN variants =>
                  /\ variants'[h].name =
                        (IF IsSome(r.name) THEN r.name ELSE variants[h].name)
                  /\ variants'[h].image_url =
                        (IF IsSome(r.image_url) THEN r.image_url ELSE variants[h].image_url)
      ]_vars

(* an existing variant whose stored name is that of the row just upserted, while
   an earlier flat-log line of the same hash_key carries another name *)
C8_Witness ==
    /\ pc = "insert"
    /\ LET r == new_rows[k]
       IN  /\ IsSome(r.name)
           /\ variants[r.hash_key].first_seen_at < variants[r.hash_key].last_seen_at
           /\ variants[r.hash_key].name = r.name
           /\ \E n \in DOMAIN csv :
                 /\ csv[n].hash_key = r.hash_key
                 /\ csv[n].crawl_ts = variants[r.hash_key].first_seen_at
                 /\ csv[n].name \notin {"", Val(r.name)}

(* C9: a run that aborts because the session cannot be started or because the
   category navigation or the link discovery raises has called finish_run. *)
C9_FatalStillFinishes ==
    (pc = "crashed" /\ fault \in FatalFaults) =>
        (finish_called \/ IsSome(runs[Len(runs)].finished_at))

(* C10: with start offset s and item limit n, the loop body runs for the links
   s, s+1, ... , up to n of them: a resumed invocation takes up to n links from
   its offset on. *)
C10_LimitCountsFromOffset ==
    pc = "close" =>
        visited = {j \in 0..(Len(product_links) - 1) :
                      start_at <= j /\ (IsSome(limit) => j < start_at + Val(limit))}

(* C11: between every two consecutive product-page visits of a run the
   politeness pause is executed, whatever the outcome of the earlier page's
   parse: no page is reached by a successful navigation while the pause for the
   page visited before it is still due. *)
C11_PauseBetweenVisits ==
    [][ (pc = "nav" /\ pc' = "parse") => ~pause_due ]_vars

----------------------------------------------------------------------------
(* Properties of link discovery *)

(* C12: the scroll loop makes at most 40 iterations, and when the count of
   distinct candidate links changed for the last time at iteration k the loop
   is left no later than after iteration k + 3; every iteration adds one to the
   iteration count, so the loop ends on every page, one without links included. *)
C12_ScrollTerminates ==
    /\ scroll_n <= 40
    /\ (sc_pc = "collect" => scroll_n < 40)
    /\ (scroll_n >= 1 => last_change >= 1 /\ scroll_n <= last_change + 3)
    /\ (sc_pc \in {"normalize", "returned"} =>
           scroll_n = 40 \/ scroll_n = last_change + 3)

(* the count changed for the last time at iteration 2, the loop was left after
   iteration 5 and the links were returned *)
C12_Witness ==
    /\ sc_pc = "returned"
    /\ last_change = 2
    /\ scroll_n = 5
    /\ Val(returned_links) # <<>>

(* C13: the returned list has no duplicates, is sorted ascending, and holds only
   absolute URLs whose scheme and host are those of the category page and whose
   path is a product path. *)
C13_ReturnedLinks ==
    IsSome(returned_links) =>
        LET res == Val(returned_links)
        IN  /\ \A a, b \in DOMAIN res : a < b => LexLess(res[a], res[b])
            /\ \A a \in DOMAIN res :
                  /\ urlparse(res[a]).scheme = urlparse(PageUrl).scheme
                  /\ urlparse(res[a]).netloc = urlparse(PageUrl).netloc
                  /\ Contains(urlparse(res[a]).path, S_shop)

----------------------------------------------------------------------------
(* Properties of the price reconciliation *)

(* the amount a price text states, in cents: its digits up to the second period,
   0 without a digit; where to_float returns it is to_float's value *)
Amount(p) ==
    LET s == StripToNumber(p)
        d == FirstIndex(s, {"."})
        e == IF d >= Len(s) THEN Len(s) + 1
             ELSE d + FirstIndex(SubSeq(s, d + 1, Len(s)), {"."})
        v == float(SubSeq(s, 1, e - 1))
    IN  IF IsSome(v) THEN Val(v) ELSE 0

(* C14: in every row with both prices present the amount of list_price is not
   below that of sale_price: normalize_price_order swaps the two exactly when
   sale > list and returns the pair unchanged otherwise. *)
C14_ListNotBelowSale ==
    price_pc = "row" =>
        LET lp == price_derived[1]
            sp == price_derived[2]
        IN  /\ (Truthy(list_price) /\ Truthy(sale_price) =>
                   Amount(Val(list_price)) >= Amount(Val(sale_price)))
            /\ <<list_price, sale_price>> =
                   (IF Truthy(lp) /\ Truthy(sp) /\ Amount(Val(sp)) > Amount(Val(lp))
                    THEN <<sp, lp>> ELSE <<lp, sp>>)

(* C15: with exactly one side known and 0 < pct < 95 the missing side is derived
   (sale = list * (1 - pct/100), list = sale / (1 - pct/100), rounded to cents,
   with the known side's currency marker) and the known side is unchanged; in
   every other case both sides are returned unchanged. *)
C15_MissingSideDerived ==
    price_pc = "normalize" =>
        LET lp == price_given[1]
            sp == price_given[2]
            pct == IF Truthy(discount) THEN DiscountPct(Val(discount)) ELSE None
            derive == /\ Truthy(lp) # Truthy(sp)
                      /\ IsSome(pct) /\ Val(pct) > 0 /\ Val(pct) < 95
        IN  IF derive /\ Truthy(lp)
            THEN /\ list_price = lp
                 /\ Truthy(sale_price)
                 /\ Amount(Val(sale_price)) =
                        RoundCents(Amount(Val(lp)) * (100 - Val(pct)), 100)
                 /\ extract_currency_prefix(Val(sale_price)) =
                        extract_currency_prefix(Val(lp))
            ELSE IF derive
            THEN /\ sale_price = sp
                 /\ Truthy(list_price)
                 /\ Amount(Val(list_price)) =
                        RoundCents(Amount(Val(sp)) * 100, 100 - Val(pct))
                 /\ extract_currency_prefix(Val(list_price)) =
                        extract_currency_prefix(Val(sp))
            ELSE <<list_price, sale_price>> = <<lp, sp>>

----------------------------------------------------------------------------
(* Properties of the color loop of parse_pdp *)

RECURSIVE Split(_)
(* the labels of a size column: s.split(","), no label for the empty column *)
Split(s) ==
    IF s = <<>> THEN <<>>
    ELSE LET c == FirstIndex(s, {","})
         IN  <<SubSeq(s, 1, c - 1)>> \o Split(SubSeq(s, c + 1, Len(s)))

Range(q) == {q[j] : j \in DOMAIN q}

(* C16: in every row, from whichever source its sizes came, sizes_in_stock and
   sizes_out_of_stock share no label, their union is the set of labels of
   sizes_all, no label occurs twice in sizes_all, and num_sizes_in_stock is the
   number of labels of sizes_in_stock. *)
C16_SizePartition ==
    \A n \in DOMAIN pdp_rows :
        LET all == Split(pdp_rows[n].sizes_all)
            ins == Split(pdp_rows[n].sizes_in_stock)
            out == Split(pdp_rows[n].sizes_out_of_stock)
        IN  /\ Range(ins) \cap Range(out) = {}
            /\ Range(ins) \cup Range(out) = Range(all)
            /\ \A a, b \in DOMAIN all : all[a] = all[b] => a = b
            /\ pdp_rows[n].num_sizes_in_stock = Len(ins)

(* a row was built from the DOM sizes of a color of which two options had the
   same label after normalisation; the row lists the label once *)
C16_Witness ==
    /\ pdp_pc = "color"
    /\ pdp_rows # <<>>
    /\ sizes_from = "dom"
    /\ sizes_dropped = 1
    /\ pdp_rows[Len(pdp_rows)].idx = color_idx - 1
    /\ Len(Split(pdp_rows[Len(pdp_rows)].sizes_all)) = 1
    /\ pdp_rows[Len(pdp_rows)].num_sizes_in_stock = 1

(* C17: a failure while resolving one field of a color (an exception, or a value
   that cannot be used) leaves that field null and nothing else: every color of
   the page has its row, with the fields that were resolved. *)
C17_FieldFailureIsolated ==
    pdp_pc = "returned" =>
        \A c \in 1..n_colors :
            \E n \in DOMAIN pdp_rows :
                /\ pdp_rows[n].idx = c - 1
                /\ pdp_rows[n].image_url =
                       (IF outcomes[c].image = "found" THEN Some("img") ELSE None)
                /\ pdp_rows[n].inventory_amount =
                       (IF outcomes[c].inventory = "found" THEN Some(3) ELSE None)
                /\ pdp_rows[n].name =
                       (IF base_name = Some("Jacket") THEN base_name
                        ELSE IF base_name = None /\ outcomes[c].h1 = "found"
                        THEN Some("Title") ELSE None)

----------------------------------------------------------------------------
(* Properties of the flat log on disk *)

(* C18: after ensure_csv, a log that existed with a header other than the
   expected one has been renamed to a backup and the file at csv_path holds the
   expected header and nothing else; a log whose header was read and matches is
   as it was; so the first line of the file append_rows writes to is the
   expected header. *)
C18_RotatedOrUntouched ==
    csv_pc = "append" =>
        /\ log_file.exists
        /\ CurrentHeader(log_file) = [j \in 1..19 |-> <<expected_header[j]>>]
        /\ (appends = 0 /\ log_before.exists) =>
               IF CurrentHeader(log_before) = [j \in 1..19 |-> <<expected_header[j]>>]
               THEN log_read => log_file = log_before
               ELSE /\ log_file.lines = <<WriteRow(expected_header)>>
                    /\ backups # <<>>
                    /\ backups[Len(backups)] = log_before

----------------------------------------------------------------------------
(* Properties of the identity hash *)

(* C19: equal (product URL, color) pairs have equal keys and distinct pairs have
   distinct keys, the digest being injective on the identity string. *)
C19_KeyStandsForOnePair ==
    hash_pc = "hashed" =>
        (hash_keys[1] = hash_keys[2] <=> hash_pairs[1] = hash_pairs[2])

----------------------------------------------------------------------------
(* Properties of the observation table *)

(* C20: no step updates or deletes an observation: the table after a step is
   the table before it, or that table with one new entry at its end, the entry
   of the current run; and each insert_observation of the run adds an entry,
   also for a variant an earlier run observed. *)
C20_ObservationsAppendOnly ==
    [][ /\ Len(observations') >= Len(observations)
        /\ SubSeq(observations', 1, Len(observations)) = observations
        /\ observations' # observations =>
               /\ Len(observations') = Len(observations) + 1
               /\ observations'[Len(observations')].run_id = run_id
               /\ observations'[Len(observations')].obs_id = Len(observations')
        /\ (pc = "insert" /\ pc' \in {"upsert", "pause"}) =>
               /\ Len(observations') = Len(observations) + 1
               /\ observations'[Len(observations')].hash_key = new_rows[k].hash_key
      ]_vars

(* two runs observed the same variant: the table holds both observations, the
   earlier one first *)
C20_Witness ==
    \E a, b \in DOMAIN observations :
        /\ a < b
        /\ observations[a].hash_key = observations[b].hash_key
        /\ observations[a].run_id # observations[b].run_id
        /\ observations[a].obs_id = a
        /\ observations[b].obs_id = b

----------------------------------------------------------------------------
(* Properties of a run whose sinks do not fail *)

(* the indices of the discovered list that are in range: start_at <= j, and
   j < limit when a limit is given *)
InRange ==
    {j \in 0..(Len(product_links) - 1) : start_at <= j /\ (IsSome(limit) => j < Val(limit))}

(* C21: once the link list is discovered, whatever navigations and parses fail,
   the loop ends with every link in range visited (processed or skipped), then
   the automation session is closed, then the run is finished with its finish
   timestamp set. *)
C21_RunReachesFinish ==
    /\ (pc = "loop") ~> (pc = "close" /\ visited = InRange)
    /\ (pc = "close") ~> (pc = "finish" /\ session = "closed")
    /\ (pc = "finish") ~>
          (pc = "done" /\ finish_called /\ IsSome(runs[Len(runs)].finished_at))

(* a run has finished in which both links were visited, the parse of the last
   one raised and no row was written *)
C21_Witness ==
    /\ pc = "done"
    /\ visited = {0, 1}
    /\ written = <<>>
    /\ last_event = "PDP parse failed"
    /\ IsSome(runs[Len(runs)].finished_at)

----------------------------------------------------------------------------
(* Properties of the run record *)

(* C27: the finish timestamp of a run is null while the run is under way and
   after it stopped early; it is set in one step only, taken by that run after
   its loop over the links has ended with no link in range left and after the
   automation session was closed. *)
C27_FinishedOnlyAfterLoop ==
    [][ /\ \A n \in DOMAIN runs :
              runs'[n].finished_at # runs[n].finished_at =>
                 /\ runs[n].finished_at = None
                 /\ n = run_id
                 /\ pc = "finish"
                 /\ session = "closed"
                 /\ (i >= Len(product_links) \/ ~BelowLimit(i, limit))
                 /\ visited = InRange
                 /\ pc' = "done"
        /\ (pc' \in Running \cup {"crashed"}) =>
              runs'[Len(runs')].finished_at = None
        /\ (pc' \in Running /\ InRange' \ visited' # {}) =>
              runs'[run_id'].finished_at = None
      ]_vars

(* a first run has finished and has its timestamp; the second was interrupted
   and has none *)
C27_Witness ==
    /\ Len(runs) = 2
    /\ IsSome(runs[1].finished_at)
    /\ pc = "crashed"
    /\ fault = "interrupt"
    /\ visited = {}
    /\ links_found > 0
    /\ runs[2].finished_at = None

----------------------------------------------------------------------------
(* Properties of the references between the tables *)

(* the observations the current run has inserted: as many at the end of the
   table as the run has "obs" writes *)
OwnObservations ==
    LET q == Cardinality({n \in DOMAIN written : written[n][1] = "obs"})
    IN  (Len(observations) - q + 1)..Len(observations)

(* C28: every observation names a run of the runs table and a variant of the
   variants table; the observations the current run inserted carry the id
   begin_run returned to it; and when insert_observation is about to be called
   for a kept row, upsert_variant has completed for it. *)
C28_ObservationReferences ==
    /\ \A n \in DOMAIN observations :
          /\ observations[n].hash_key \in DOMAIN variants
          /\ \E r \in DOMAIN runs : runs[r].run_id = observations[n].run_id
    /\ pc \in Running =>
          \A n \in OwnObservations : observations[n].run_id = run_id
    /\ pc = "insert" =>
          /\ new_rows[k].hash_key \in DOMAIN variants
          /\ variants[new_rows[k].hash_key].last_seen_at = new_rows[k].crawl_ts
          /\ written[Len(written)] =
                <<"upsert", new_rows[k].product_url, OrEmpty(new_rows[k].color)>>

(* the second run has just inserted an observation of a variant that the first
   run created *)
C28_Witness ==
    /\ pc \in {"upsert", "pause"}
    /\ run_id = 2
    /\ OwnObservations # {}
    /\ Len(observations) >= 2
    /\ observations[1].run_id = 1
    /\ observations[Len(observations)].run_id = 2
    /\ observations[Len(observations)].hash_key = observations[1].hash_key
    /\ variants[observations[1].hash_key].first_seen_at = observations[1].crawl_ts

----------------------------------------------------------------------------
(* Properties of the variant table *)

(* C29: a variant that was upserted is in the table ever after; its
   first_seen_at is the time of the first upsert of its hash_key, and its
   product_url, color (the empty text for no color) and last_seen_at are those
   of the latest upsert of its hash_key. *)
C29_VariantFrame ==
    /\ DOMAIN up_variants = {up_calls[n].hash_key : n \in DOMAIN up_calls}
    /\ \A h \in DOMAIN up_variants :
          LET of_h == {n \in DOMAIN up_calls : up_calls[n].hash_key = h}
              first == up_calls[CHOOSE n \in of_h : \A m \in of_h : n <= m]
              latest == up_calls[CHOOSE n \in of_h : \A m \in of_h : m <= n]
          IN  /\ up_variants[h].first_seen_at = first.crawl_ts
              /\ up_variants[h].last_seen_at = latest.crawl_ts
              /\ up_variants[h].product_url = latest.product_url
              /\ up_variants[h].color = OrEmpty(latest.color)

(* a variant was upserted three times, the last time with another URL and
   another color than the first *)
C29_Witness ==
    /\ Len(up_calls) = 3
    /\ DOMAIN up_variants = {"k1"}
    /\ up_calls[1].product_url # up_calls[3].product_url
    /\ up_calls[1].color = Some("Black")
    /\ up_variants["k1"].color = "Blue"
    /\ up_variants["k1"].first_seen_at = 1
    /\ up_variants["k1"].last_seen_at = 3

----------------------------------------------------------------------------
(* Properties of the range of the loop *)

(* C30: the limit is an absolute index: at every point of the loop the links
   whose body was entered are the indices j below the loop index (and the loop
   index itself inside the body) with start_at <= j, and j < limit when a limit
   is given; when the loop has ended they are all such indices of the list, none
   when start_at >= limit, and the run goes on to close the session. *)
C30_LimitIsAbsoluteIndex ==
    /\ pc = "loop" => visited = {j \in InRange : j < i}
    /\ pc \in {"nav", "parse", "dedupe", "append", "upsert", "insert", "pause"} =>
          (i \in InRange /\ visited = {j \in InRange : j <= i})
    /\ pc \in {"close", "finish"} =>
          /\ visited = InRange
          /\ (IsSome(limit) /\ start_at >= Val(limit)) => visited = {}

(* two links were discovered, start_at = 1 and limit = 1: the loop has ended
   without entering its body and the run is about to be finished *)
C30_Witness ==
    /\ pc = "finish"
    /\ Len(product_links) = 2
    /\ start_at = 1
    /\ limit = Some(1)
    /\ visited = {}
    /\ session = "closed"

----------------------------------------------------------------------------
(* Properties of the color options *)

(* the swatches of the page that carry the discounted color: those whose
   aria-label contains the declared name, letter case aside *)
DiscountedSwatches ==
    {s \in DOMAIN swatch_labels :
        discounted_name # <<>> /\ Contains(Lower(swatch_labels[s]), Lower(discounted_name))}

(* C22: when the page declares a discounted color and a swatch of the page
   carries it, a swatch of that color is first in the iteration order, whatever
   the cap max_colors >= 1 and wherever the swatch is on the page, and the
   swatches that are not of that color follow in page order. *)
C22_DiscountedFirst ==
    (sw_pc # "find" /\ DiscountedSwatches # {}) =>
        /\ color_selectors[1] \in DiscountedSwatches
        /\ \A a, b \in DOMAIN color_selectors :
              (a < b /\ color_selectors[a] \notin DiscountedSwatches
                     /\ color_selectors[b] \notin DiscountedSwatches)
                 => color_selectors[a] < color_selectors[b]

(* C26: every row has a non-empty color; a row for which no label was read (the
   row of the sentinel among them) has the color color_N, N its 1-based position
   in the iteration order; every entry of the iteration order gets its row; and
   two rows without a label never have the same color. *)
C26_PositionalColor ==
    /\ \A n \in DOMAIN sw_rows :
          /\ sw_rows[n].color # <<>>
          /\ sw_rows[n].idx = n - 1
          /\ ~sw_rows[n].resolved =>
                sw_rows[n].color = <<"c", "o", "l", "o", "r", "_">> \o IntText(n)
    /\ \A n, m \in DOMAIN sw_rows :
          (n # m /\ ~sw_rows[n].resolved /\ ~sw_rows[m].resolved) =>
             sw_rows[n].color # sw_rows[m].color
    /\ Len(sw_rows) = sw_idx
    /\ sw_pc = "returned" => Len(sw_rows) = Len(color_selectors)

(* a page with three swatches of which the last two have no label anywhere: the
   rows are named by the first swatch's label, color_2 and color_3 *)
C26_Witness ==
    /\ sw_pc = "returned"
    /\ Len(sw_rows) = 3
    /\ sw_rows[1].resolved
    /\ ~sw_rows[2].resolved
    /\ ~sw_rows[3].resolved
    /\ sw_rows[2].color = <<"c", "o", "l", "o", "r", "_", "2">>
    /\ sw_rows[3].color = <<"c", "o", "l", "o", "r", "_", "3">>

----------------------------------------------------------------------------
(* Properties of the sizes and the inventory of a color *)

(* C23: the size list, the per-size quantities and the inventory amount of a row
   come from reads made before select_first_in_stock_size clicked a size in that
   iteration: none of them comes from a read made with a size clicked. *)
C23_ReadBeforeSizeClick ==
    \A n \in DOMAIN st_rows :
        LET r == st_rows[n]
        IN  /\ r.sizes # <<>> => r.sizes_phase # "size"
            /\ DOMAIN r.size_quantities # {} => r.qty_phase # "size"
            /\ IsSome(r.inventory_amount) => r.inv_phase # "size"

(* the variants of __NEXT_DATA__ that belong to the colour with value c, as
   <<size label, inventory>> *)
VariantsOfColour(c) ==
    LET own == SelectSeq(page_nd.variants, LAMBDA v : v.colourId = c)
    IN  [j \in DOMAIN own |-> <<own[j].size, own[j].inventory>>]

(* C24: a row whose sizes come from the embedded state has the sizes and the
   per-size quantities of the variants of its own colour, whichever colour the
   embedded state names as selected. *)
C24_SizesOfTheColor ==
    \A n \in DOMAIN st_rows :
        LET r == st_rows[n]
        IN  r.sizes_from = "next" =>
               /\ r.size_quantities = SizeQty(VariantsOfColour(r.idx + 1))
               /\ r.sizes = parse_arc_sizes_from_next_data(VariantsOfColour(r.idx + 1))

(* C25: with a per-size map the inventory amount is the sum of the map; without
   one it is absent when no scalar value matched, else the sum of the matched
   values, or their maximum when the sum is outside 0..2000; an amount that is
   present is in 0..2000. *)
C25_InventoryAmount ==
    \A n \in DOMAIN st_rows :
        LET r == st_rows[n]
            total == SumSeq(r.inv_values)
        IN  /\ DOMAIN r.size_quantities # {} =>
                   r.inventory_amount = Some(SumMap(r.size_quantities))
            /\ DOMAIN r.size_quantities = {} =>
                   r.inventory_amount =
                      IF r.inv_values = <<>> THEN None
                      ELSE IF total \in 0..2000 THEN Some(total)
                      ELSE Some(MaxSeq(r.inv_values))
            /\ IsSome(r.inventory_amount) => Val(r.inventory_amount) \in 0..2000
====
